---- MODULE Spec2Model ----
(***************************************************************************)
(* Work.ai planner: the preference normalizer, the calendar day walker,    *)
(* the greedy slot allocator and the block post-processor of               *)
(* src/lib/planner.ts.                                                     *)
(*                                                                         *)
(* Time.  An instant is an integer number of minutes since the local       *)
(* midnight that opens a Sunday, taken in UTC (Date.getTime() / 60000      *)
(* against that epoch).  tz is Date.getTimezoneOffset() (UTC minus local,  *)
(* in minutes) of a zone without daylight-saving transitions.  The only    *)
(* instant with a sub-minute part is "now": nowPartial says that its       *)
(* seconds or milliseconds are not zero.                                   *)
(*                                                                         *)
(* Numbers.  A JavaScript number of a loosely typed payload is a record    *)
(* [k |-> "number", cls, n] with n in halves (n = 17 is 8.5); the results  *)
(* of Math.floor / Math.round are integers, Infinity, -Infinity or NaN.    *)
(***************************************************************************)
EXTENDS Integers, Sequences, FiniteSets, TLC

VARIABLES
    pc,                     \* position of the run
    tz,                     \* Date.getTimezoneOffset() of the host
    now,                    \* new Date(), whole minutes
    nowPartial,             \* new Date() has seconds or milliseconds
    analysis,               \* TaskAnalysis[]            (argument)
    busyIntervals,          \* BusyInterval[]            (argument)
    preferencesInput,       \* unknown                   (argument)
    preferences,            \* normalizeSchedulePreferences(preferencesInput)
    schedulingStart,        \* getSchedulingStart(new Date(), preferences)
    workDays,               \* enabled day anchors of the horizon
    queue,                  \* internal queue items (remainingMinutes mutable)
    blocks,                 \* raw emitted blocks
    plannedBusyIntervals,   \* planned-busy ledger
    dayIdx,                 \* index of the day being walked in workDays
    start,                  \* slot cursor of the inner loop
    workedMinutesToday,
    focusMinutesSinceBreak,
    lastSlot,               \* what the last slot iteration did, and to whom
    mergedBlocks,           \* mergeSequentialBlocks(blocks)
    result,                 \* the returned list
    previousResult,         \* what an earlier call with these arguments returned
    candidates,             \* a sorted candidate list, as indices into the queue
    \* the planner page (app/planner/page.tsx)
    inputs,                 \* analysis, schedulePreferences, ignoredCalendarIds, connectedCalendar
    effectPending,          \* the effect on [refreshSchedule] is due to run
    scheduleRequestInFlight,
    queuedScheduleRefresh,
    requests,               \* fetches of /api/planner/schedule without a response yet
    schedule,               \* the displayed schedule, as the inputs it was computed from
    scheduleLoading,
    coalesced,              \* the silent flags of the calls queued behind the running refresh
    \* the Google sign-in (api/auth/google, lib/google-auth)
    stateCookie,            \* the browser's google_oauth_state cookie
    tokenCookie,            \* the browser's google_oauth_tokens cookie
    callbacks,              \* callback requests on their way to the server
    responses,              \* callback responses on their way to the browser
    lastCallback,           \* what the last handled callback did
    handledStates,          \* the state parameters of the callbacks handled so far
    issuedStates            \* how many state values have been issued

vars == << pc, tz, now, nowPartial, analysis, busyIntervals, preferencesInput,
           preferences, schedulingStart, workDays, queue, blocks,
           plannedBusyIntervals, dayIdx, start, workedMinutesToday,
           focusMinutesSinceBreak, lastSlot, mergedBlocks, result,
           previousResult, candidates, inputs, effectPending,
           scheduleRequestInFlight, queuedScheduleRefresh, requests, schedule,
           scheduleLoading, coalesced, stateCookie, tokenCookie, callbacks,
           responses, lastCallback, handledStates, issuedStates >>

\* the variables of the planner page and of the sign-in
pageVars == << inputs, effectPending, scheduleRequestInFlight,
               queuedScheduleRefresh, requests, schedule, scheduleLoading,
               coalesced >>

oauthVars == << stateCookie, tokenCookie, callbacks, responses, lastCallback,
                handledStates, issuedStates >>

\* the variables of a generateWeeklySchedule run
plannerVars == << tz, now, nowPartial, analysis, busyIntervals, preferencesInput,
                  preferences, schedulingStart, workDays, queue, blocks,
                  plannedBusyIntervals, dayIdx, start, workedMinutesToday,
                  focusMinutesSinceBreak, lastSlot, mergedBlocks, result,
                  previousResult, candidates >>

-----------------------------------------------------------------------------
(* Program constants *)

SCHEDULE_SLOT_MINUTES == 30
DefaultStartHour == 8
DefaultEndHour == 23
DefaultMaxWorkMinutesPerDay == 480
DefaultBreakEveryFocusMinutes == 90
DefaultShortBreakMinutes == 10
DefaultMaxContinuousFocusMinutes == 120
MinutesPerDay == 1440
MinPlanningDays == 7
MaxPlanningDays == 60
EligibleDaySearchLimit == 14

-----------------------------------------------------------------------------
(* JavaScript numbers *)

Infinity == 1000000
NaN == 0 - 2000000

IsNaN(x) == x = NaN

\* Math.min / Math.max: NaN if either argument is NaN
MathMin(a, b) == IF IsNaN(a) \/ IsNaN(b) THEN NaN ELSE IF a <= b THEN a ELSE b
MathMax(a, b) == IF IsNaN(a) \/ IsNaN(b) THEN NaN ELSE IF a >= b THEN a ELSE b

\* a < b, a >= b of two numbers: false when either is NaN
JsLess(a, b) == ~IsNaN(a) /\ ~IsNaN(b) /\ a < b
JsGreaterEq(a, b) == ~IsNaN(a) /\ ~IsNaN(b) /\ a >= b

\* typeof v === "number"
IsNumber(v) == v.k = "number"

\* Math.floor of a number value (n in halves)
MathFloor(v) ==
    CASE v.cls = "NaN" -> NaN
      [] v.cls = "Infinity" -> Infinity
      [] v.cls = "-Infinity" -> 0 - Infinity
      [] OTHER -> v.n \div 2

\* Math.round of a number value: halves round towards +Infinity
MathRound(v) ==
    CASE v.cls = "NaN" -> NaN
      [] v.cls = "Infinity" -> Infinity
      [] v.cls = "-Infinity" -> 0 - Infinity
      [] OTHER -> (v.n + 1) \div 2

\* Number.isInteger(v)
NumberIsInteger(v) == v.k = "number" /\ v.cls = "finite" /\ v.n % 2 = 0

\* the integer value of a value that passed Number.isInteger
IntegerOf(v) == v.n \div 2

-----------------------------------------------------------------------------
(* Preference normalizer *)

DefaultDayRule(weekday) ==
    [weekday |-> weekday, enabled |-> TRUE,
     startHour |-> DefaultStartHour, endHour |-> DefaultEndHour]

DEFAULT_SCHEDULE_PREFERENCES ==
    [dayRules |-> [i \in 1..7 |-> DefaultDayRule(i - 1)],
     maxWorkMinutesPerDay |-> DefaultMaxWorkMinutesPerDay,
     breakEveryFocusMinutes |-> DefaultBreakEveryFocusMinutes,
     shortBreakMinutes |-> DefaultShortBreakMinutes,
     maxContinuousFocusMinutes |-> DefaultMaxContinuousFocusMinutes]

\* Array.prototype.filter
RECURSIVE SelectSeqRec(_, _)
SelectSeqRec(s, keep) ==
    IF s = << >> THEN << >>
    ELSE IF keep[1] THEN << Head(s) >> \o SelectSeqRec(Tail(s), Tail(keep))
         ELSE SelectSeqRec(Tail(s), Tail(keep))

\* one entry of raw.dayRules after the first .map: weekday -1 when it is no
\* integer, enabled true unless a boolean, hours floored and clamped
ParseDayRuleItem(item) ==
    LET weekday == IF NumberIsInteger(item.weekday) THEN IntegerOf(item.weekday)
                   ELSE 0 - 1
        enabled == IF item.enabled.k = "boolean" THEN item.enabled.b ELSE TRUE
        startHourRaw == IF IsNumber(item.startHour) THEN MathFloor(item.startHour)
                        ELSE DefaultStartHour
        endHourRaw == IF IsNumber(item.endHour) THEN MathFloor(item.endHour)
                      ELSE DefaultEndHour
    IN  [weekday |-> weekday, enabled |-> enabled,
         startHour |-> MathMax(0, MathMin(23, startHourRaw)),
         endHour |-> MathMax(1, MathMin(24, endHourRaw))]

\* the second .map: an inverted window is reset for that entry only
ResetInvertedWindow(rule) ==
    IF JsGreaterEq(rule.startHour, rule.endHour)
    THEN [rule EXCEPT !.startHour = DefaultStartHour, !.endHour = DefaultEndHour]
    ELSE rule

\* raw.dayRules is an array: filter objects, map, filter weekday 0..6, map
ParseDayRules(items) ==
    LET objects == SelectSeqRec(items, [i \in 1..Len(items) |-> items[i].k = "object"])
        parsed == [i \in 1..Len(objects) |-> ParseDayRuleItem(objects[i])]
        inRange == SelectSeqRec(parsed,
                       [i \in 1..Len(parsed) |->
                           parsed[i].weekday >= 0 /\ parsed[i].weekday <= 6])
    IN  [i \in 1..Len(inRange) |-> ResetInvertedWindow(inRange[i])]

\* the legacy shape, with an empty or inverted global window kept as it is
ParseLegacyRulesKeepWindow(raw) ==
    LET startHourRaw == IF IsNumber(raw.startHour) THEN MathFloor(raw.startHour)
                        ELSE DefaultStartHour
        endHourRaw == IF IsNumber(raw.endHour) THEN MathFloor(raw.endHour)
                      ELSE DefaultEndHour
        activeSet ==
            IF raw.activeWeekdays.k = "array"
            THEN { IntegerOf(raw.activeWeekdays.items[i]) :
                     i \in { j \in 1..Len(raw.activeWeekdays.items) :
                               /\ NumberIsInteger(raw.activeWeekdays.items[j])
                               /\ IntegerOf(raw.activeWeekdays.items[j]) >= 0
                               /\ IntegerOf(raw.activeWeekdays.items[j]) <= 6 } }
            ELSE 0..6
    IN  [i \in 1..7 |->
            [weekday |-> i - 1,
             enabled |-> (i - 1) \in activeSet,
             startHour |-> MathMax(0, MathMin(23, startHourRaw)),
             endHour |-> MathMax(1, MathMin(24, endHourRaw))]]

\* the legacy shape: one global window and an activeWeekdays list
ParseLegacyRules(raw) ==
    LET startHourRaw == IF IsNumber(raw.startHour) THEN MathFloor(raw.startHour)
                        ELSE DefaultStartHour
        endHourRaw == IF IsNumber(raw.endHour) THEN MathFloor(raw.endHour)
                      ELSE DefaultEndHour
        startHour == MathMax(0, MathMin(23, startHourRaw))
        endHour == MathMax(1, MathMin(24, endHourRaw))
        activeSet ==
            IF raw.activeWeekdays.k = "array"
            THEN { IntegerOf(raw.activeWeekdays.items[i]) :
                     i \in { j \in 1..Len(raw.activeWeekdays.items) :
                               /\ NumberIsInteger(raw.activeWeekdays.items[j])
                               /\ IntegerOf(raw.activeWeekdays.items[j]) >= 0
                               /\ IntegerOf(raw.activeWeekdays.items[j]) <= 6 } }
            ELSE 0..6
    IN  [i \in 1..7 |->
            [weekday |-> i - 1,
             enabled |-> (i - 1) \in activeSet,
             startHour |-> IF JsLess(startHour, endHour) THEN startHour
                           ELSE DefaultStartHour,
             endHour |-> IF JsLess(startHour, endHour) THEN endHour
                         ELSE DefaultEndHour]]

\* byWeekday: the default rules, each overwritten by the last parsed rule of
\* its weekday; the Map keeps the insertion order 0..6, which the sort keeps
RECURSIVE MergeOverDefaults(_, _)
MergeOverDefaults(byWeekday, parsedRules) ==
    IF parsedRules = << >> THEN byWeekday
    ELSE MergeOverDefaults(
             [byWeekday EXCEPT ![Head(parsedRules).weekday + 1] = Head(parsedRules)],
             Tail(parsedRules))

\* one wellness knob, rounded to the whole number above the nearest one
ClampRoundedUpByOne(v, lo, hi, default) ==
    MathMax(lo, MathMin(hi, IF IsNumber(v) THEN MathRound(v) + 1 ELSE default))

\* one wellness knob: Math.round when a number, else the default; then clamped
ClampRounded(v, lo, hi, default) ==
    MathMax(lo, MathMin(hi, IF IsNumber(v) THEN MathRound(v) ELSE default))

\* the Map keyed by weekday, as a sequence in key order
ByWeekdayNoKey(parsedRules) ==
    DEFAULT_SCHEDULE_PREFERENCES.dayRules \o parsedRules

ByWeekday(parsedRules) ==
    MergeOverDefaults(DEFAULT_SCHEDULE_PREFERENCES.dayRules, parsedRules)

HasAnyEnabledAlways(dayRules) == TRUE

HasAnyEnabled(dayRules) == \E i \in 1..Len(dayRules) : dayRules[i].enabled

\* the property reads of a value that passed the object test: an array (or
\* an object without them) reads every property as undefined
PropertiesOf(value) ==
    IF value.k = "object" THEN value
    ELSE [k |-> "object", dayRules |-> [k |-> "undefined", items |-> << >>],
          startHour |-> [k |-> "undefined", cls |-> "none", n |-> 0, b |-> FALSE],
          endHour |-> [k |-> "undefined", cls |-> "none", n |-> 0, b |-> FALSE],
          activeWeekdays |-> [k |-> "undefined", items |-> << >>],
          maxWorkMinutesPerDay |->
              [k |-> "undefined", cls |-> "none", n |-> 0, b |-> FALSE],
          breakEveryFocusMinutes |->
              [k |-> "undefined", cls |-> "none", n |-> 0, b |-> FALSE],
          shortBreakMinutes |->
              [k |-> "undefined", cls |-> "none", n |-> 0, b |-> FALSE],
          maxContinuousFocusMinutes |->
              [k |-> "undefined", cls |-> "none", n |-> 0, b |-> FALSE]]

\* !value || typeof value !== "object": null, undefined, numbers, strings and
\* booleans; objects and arrays pass
IsObjectValue(value) == value.k \in { "object", "array" }

normalizeSchedulePreferences(value) ==
    IF ~IsObjectValue(value) THEN DEFAULT_SCHEDULE_PREFERENCES
    ELSE
        LET raw == PropertiesOf(value)
            parsedRules == IF raw.dayRules.k = "array"
                           THEN ParseDayRules(raw.dayRules.items)
                           ELSE ParseLegacyRules(raw)
            dayRules == ByWeekday(parsedRules)
        IN  [dayRules |-> IF HasAnyEnabled(dayRules) THEN dayRules
                          ELSE DEFAULT_SCHEDULE_PREFERENCES.dayRules,
             maxWorkMinutesPerDay |->
                 ClampRounded(raw.maxWorkMinutesPerDay, 60, 16 * 60,
                              DefaultMaxWorkMinutesPerDay),
             breakEveryFocusMinutes |->
                 ClampRounded(raw.breakEveryFocusMinutes, 30, 6 * 60,
                              DefaultBreakEveryFocusMinutes),
             shortBreakMinutes |->
                 ClampRounded(raw.shortBreakMinutes, 5, 60,
                              DefaultShortBreakMinutes),
             maxContinuousFocusMinutes |->
                 ClampRounded(raw.maxContinuousFocusMinutes,
                              SCHEDULE_SLOT_MINUTES, 8 * 60,
                              DefaultMaxContinuousFocusMinutes)]

-----------------------------------------------------------------------------
(* Dates (local wall-clock arithmetic of Date in a zone of offset tz) *)

\* the local wall-clock reading of an instant, in minutes
LocalOf(t) == t - tz

\* Date.getDay(): 0 = Sunday
getDay(t) == (LocalOf(t) \div MinutesPerDay) % 7

\* Date.getMinutes()
getMinutes(t) == LocalOf(t) % 60

\* d.setHours(h, 0, 0, 0)
setHours(t, h) == (LocalOf(t) \div MinutesPerDay) * MinutesPerDay + h * 60 + tz

\* d.setDate(d.getDate() + n)
addDays(t, n) == t + n * MinutesPerDay

addMinutes(date, minutes) == date + minutes

maxDate(a, b) == IF a >= b THEN a ELSE b

isSameLocalDate(a, b) ==
    LocalOf(a) \div MinutesPerDay = LocalOf(b) \div MinutesPerDay

\* local wall-clock string without offset, to the second
formatLocalDateToISO(date) == date - tz

\* new Date(s) of a string without offset: read as local time
parseLocalISO(s) == s + tz

\* d.toISOString(): a valid UTC string of the instant
toISOString(t) == [ok |-> TRUE, t |-> t]

\* a deadline that does not parse falls back to the next day
parseDeadlineNextDay(deadline) ==
    IF deadline.ok THEN deadline.t ELSE now + MinutesPerDay

\* new Date(deadline), or new Date() when it does not parse
parseDeadline(deadline) == IF deadline.ok THEN deadline.t ELSE now

isOverlappingBusyWindowSwapped(slotStart, slotEnd, intervals) ==
    \E i \in 1..Len(intervals) :
        /\ intervals[i].startISO.ok
        /\ intervals[i].endISO.ok
        /\ slotStart < intervals[i].startISO.t
        /\ slotEnd > intervals[i].endISO.t

isOverlappingBusyWindow(slotStart, slotEnd, intervals) ==
    \E i \in 1..Len(intervals) :
        /\ intervals[i].startISO.ok
        /\ intervals[i].endISO.ok
        /\ slotStart < intervals[i].endISO.t
        /\ slotEnd > intervals[i].startISO.t

blockOverlapsBusy(block, intervals) ==
    isOverlappingBusyWindow(parseLocalISO(block.startISO),
                            parseLocalISO(block.endISO), intervals)

nextCalendarDays(from, count) == [i \in 1..count |-> addDays(from, i - 1)]

\* dayRules.find(rule => rule.weekday === weekday), undefined as << >>
RECURSIVE FindRule(_, _)
FindRule(dayRules, weekday) ==
    IF dayRules = << >> THEN << >>
    ELSE IF Head(dayRules).weekday = weekday THEN << Head(dayRules) >>
         ELSE FindRule(Tail(dayRules), weekday)

\* dayRules.find(...) ?? DEFAULT_SCHEDULE_PREFERENCES.dayRules[weekday]
RuleOrDefault(prefs, weekday) ==
    IF FindRule(prefs.dayRules, weekday) = << >>
    THEN DEFAULT_SCHEDULE_PREFERENCES.dayRules[weekday + 1]
    ELSE FindRule(prefs.dayRules, weekday)[1]

-----------------------------------------------------------------------------
(* Calendar day walker *)

RECURSIVE MoveToNextEligible(_, _, _)
MoveToNextEligible(next, prefs, safety) ==
    IF safety >= EligibleDaySearchLimit THEN setHours(next, DefaultStartHour)
    ELSE IF RuleOrDefault(prefs, getDay(next)).enabled
         THEN setHours(next, RuleOrDefault(prefs, getDay(next)).startHour)
         ELSE MoveToNextEligible(addDays(next, 1), prefs, safety + 1)

moveToNextEligibleDayStart(date, prefs) == MoveToNextEligible(date, prefs, 0)

RoundedUpIgnoringSeconds(t, partial) ==
    IF getMinutes(t) % SCHEDULE_SLOT_MINUTES # 0
    THEN t + (SCHEDULE_SLOT_MINUTES - (getMinutes(t) % SCHEDULE_SLOT_MINUTES))
    ELSE t

\* the rounding branch: a partial minute or a minute off the slot grid moves
\* to the next slot boundary
RoundedUp(t, partial) ==
    IF partial \/ getMinutes(t) % SCHEDULE_SLOT_MINUTES # 0
    THEN t + (SCHEDULE_SLOT_MINUTES - (getMinutes(t) % SCHEDULE_SLOT_MINUTES))
    ELSE t

getSchedulingStart(t, partial, prefs) ==
    LET todayRule == RuleOrDefault(prefs, getDay(t))
        dayStart == setHours(t, todayRule.startHour)
        dayEnd == setHours(t, todayRule.endHour)
        rounded == RoundedUp(t, partial)
    IN  IF ~todayRule.enabled THEN moveToNextEligibleDayStart(t, prefs)
        ELSE IF t < dayStart THEN dayStart
        ELSE IF t >= dayEnd THEN moveToNextEligibleDayStart(addDays(t, 1), prefs)
        ELSE IF rounded >= dayEnd
             THEN moveToNextEligibleDayStart(addDays(t, 1), prefs)
        ELSE IF rounded < dayStart THEN dayStart
        ELSE rounded

-----------------------------------------------------------------------------
(* Greedy slot allocator: setup *)

\* Math.ceil(x / d) of integers, d > 0
CeilDiv(x, d) == 0 - ((0 - x) \div d)

\* analysis.reduce(max of the parsed deadlines, schedulingStart)
RECURSIVE LatestDeadline(_, _)
LatestDeadline(tasks, latest) ==
    IF tasks = << >> THEN latest
    ELSE LatestDeadline(Tail(tasks),
             IF parseDeadline(Head(tasks).deadline) > latest
             THEN parseDeadline(Head(tasks).deadline) ELSE latest)

\* the day of the latest deadline itself is not added
PlanningDaysNoExtraDay(tasks, from) ==
    LET daysUntilLatestDeadline ==
            MathMax(MinPlanningDays,
                    CeilDiv(LatestDeadline(tasks, from) - from, MinutesPerDay))
    IN  MathMax(MinPlanningDays, MathMin(MaxPlanningDays, daysUntilLatestDeadline))

PlanningDays(tasks, from) ==
    LET daysUntilLatestDeadline ==
            MathMax(MinPlanningDays,
                    CeilDiv(LatestDeadline(tasks, from) - from, MinutesPerDay) + 1)
    IN  MathMax(MinPlanningDays, MathMin(MaxPlanningDays, daysUntilLatestDeadline))

\* the horizon's day anchors whose weekday rule exists and is enabled
WorkDays(tasks, from, prefs) ==
    LET days == nextCalendarDays(from, PlanningDays(tasks, from))
    IN  SelectSeqRec(days,
            [i \in 1..Len(days) |->
                /\ FindRule(prefs.dayRules, getDay(days[i])) # << >>
                /\ FindRule(prefs.dayRules, getDay(days[i]))[1].enabled])

\* estimatedHours is held in hundredths of an hour: rawMinutes / 30 is
\* hundredths / 50
RoundedMinutes(estimatedHours) ==
    MathMax(SCHEDULE_SLOT_MINUTES,
            CeilDiv(estimatedHours, 50) * SCHEDULE_SLOT_MINUTES)

\* notBeforeISO: falsy or unparseable gives null
NotBeforeMs(task) ==
    IF task.notBeforeISO.k = "string" /\ task.notBeforeISO.ok
    THEN [isNull |-> FALSE, ms |-> task.notBeforeISO.t]
    ELSE [isNull |-> TRUE, ms |-> 0]

QueueItem(task) ==
    [id |-> task.id, title |-> task.title, details |-> task.details,
     deadline |-> task.deadline, estimatedHours |-> task.estimatedHours,
     urgencyScore |-> task.urgencyScore, priorityScore |-> task.priorityScore,
     priorityLabel |-> task.priorityLabel,
     isSplittable |-> task.isSplittable # "false",
     deadlineMs |-> parseDeadline(task.deadline),
     notBeforeMs |-> NotBeforeMs(task),
     totalRoundedMinutes |-> RoundedMinutes(task.estimatedHours),
     remainingMinutes |-> RoundedMinutes(task.estimatedHours)]

\* tasks whose rawMinutes <= 0 are dropped
BuildQueue(tasks) ==
    LET kept == SelectSeqRec(tasks,
                    [i \in 1..Len(tasks) |-> ~(tasks[i].estimatedHours <= 0)])
    IN  [i \in 1..Len(kept) |-> QueueItem(kept[i])]

-----------------------------------------------------------------------------
(* Greedy slot allocator: one slot *)

RECURSIVE SlotsFree(_, _, _, _)
SlotsFree(cursor, blockEnd, callerBusy, plannedBusy) ==
    IF ~(cursor < blockEnd) THEN TRUE
    ELSE IF isOverlappingBusyWindow(cursor,
                addMinutes(cursor, SCHEDULE_SLOT_MINUTES), callerBusy)
         THEN FALSE
    ELSE IF isOverlappingBusyWindow(cursor,
                addMinutes(cursor, SCHEDULE_SLOT_MINUTES), plannedBusy)
         THEN FALSE
    ELSE SlotsFree(addMinutes(cursor, SCHEDULE_SLOT_MINUTES), blockEnd,
                   callerBusy, plannedBusy)

canFitContiguousBlock(slotStart, dayEnd, totalMinutes, deadlineMs, notBeforeMs) ==
    LET blockEnd == addMinutes(slotStart, totalMinutes)
    IN  IF ~notBeforeMs.isNull /\ slotStart < notBeforeMs.ms THEN FALSE
        ELSE IF blockEnd > dayEnd THEN FALSE
        ELSE IF deadlineMs < blockEnd THEN FALSE
        ELSE SlotsFree(slotStart, blockEnd, busyIntervals, plannedBusyIntervals)

\* the generated description embeds details, label, score, effort, deadline, id
CalendarDescription(task) ==
    << task.details, task.priorityLabel, task.priorityScore,
       task.estimatedHours, task.deadline, task.id >>

NewBlock(task, slotStart, minutes) ==
    [taskId |-> task.id, taskTitle |-> task.title,
     startISO |-> formatLocalDateToISO(slotStart),
     endISO |-> formatLocalDateToISO(addMinutes(slotStart, minutes)),
     minutes |-> minutes,
     calendarDescription |-> CalendarDescription(task)]

PlannedInterval(slotStart, minutes) ==
    [startISO |-> toISOString(slotStart),
     endISO |-> toISOString(addMinutes(slotStart, minutes))]

\* the four candidate filters, in the code's order
HasRemainingOrZero(task) == task.remainingMinutes >= 0
DeadlineAllowsSlotStart(task, slotEnd) ==
    task.deadlineMs >= slotEnd - SCHEDULE_SLOT_MINUTES
NotBeforeAllowsSlotEnd(task, slotStart) ==
    task.notBeforeMs.isNull
        \/ slotStart + SCHEDULE_SLOT_MINUTES >= task.notBeforeMs.ms

HasRemaining(task) == task.remainingMinutes > 0
DeadlineAllows(task, slotEnd) == task.deadlineMs >= slotEnd
NotBeforeAllows(task, slotStart) ==
    task.notBeforeMs.isNull \/ slotStart >= task.notBeforeMs.ms
CapAllowsOneSlot(task, worked, cap) == worked + SCHEDULE_SLOT_MINUTES <= cap

CapAllows(task, worked, cap) ==
    worked + (IF task.isSplittable THEN SCHEDULE_SLOT_MINUTES
              ELSE task.totalRoundedMinutes) <= cap

IsCandidate(task, slotStart, slotEnd, worked, cap) ==
    /\ HasRemaining(task)
    /\ DeadlineAllows(task, slotEnd)
    /\ NotBeforeAllows(task, slotStart)
    /\ CapAllows(task, worked, cap)

CompareCandidatesGapAlways(a, b, slotStart) ==
    LET aToDeadline == a.deadlineMs - slotStart
        bToDeadline == b.deadlineMs - slotStart
        aDueSoon == aToDeadline <= 72 * 60
        bDueSoon == bToDeadline <= 72 * 60
        gap == IF aToDeadline >= bToDeadline THEN aToDeadline - bToDeadline
               ELSE bToDeadline - aToDeadline
        aCriticalSoon == IF a.priorityScore >= 85 /\ aToDeadline <= 48 * 60
                         THEN 1 ELSE 0
        bCriticalSoon == IF b.priorityScore >= 85 /\ bToDeadline <= 48 * 60
                         THEN 1 ELSE 0
        aSlack == aToDeadline - MathMax(a.remainingMinutes, SCHEDULE_SLOT_MINUTES)
        bSlack == bToDeadline - MathMax(b.remainingMinutes, SCHEDULE_SLOT_MINUTES)
    IN  IF aDueSoon # bDueSoon THEN (IF aDueSoon THEN 0 - 1 ELSE 1)
        ELSE IF gap >= 24 * 60 THEN aToDeadline - bToDeadline
        ELSE IF aCriticalSoon # bCriticalSoon THEN bCriticalSoon - aCriticalSoon
        ELSE IF a.priorityScore # b.priorityScore
             THEN b.priorityScore - a.priorityScore
        ELSE IF a.urgencyScore # b.urgencyScore
             THEN b.urgencyScore - a.urgencyScore
        ELSE IF aSlack # bSlack THEN aSlack - bSlack
        ELSE a.deadlineMs - b.deadlineMs

\* the sort comparator; the result has the sign of the code's result (hours
\* are compared in minutes)
CompareCandidates(a, b, slotStart) ==
    LET aToDeadline == a.deadlineMs - slotStart
        bToDeadline == b.deadlineMs - slotStart
        aDueSoon == aToDeadline <= 72 * 60
        bDueSoon == bToDeadline <= 72 * 60
        gap == IF aToDeadline >= bToDeadline THEN aToDeadline - bToDeadline
               ELSE bToDeadline - aToDeadline
        aCriticalSoon == IF a.priorityScore >= 85 /\ aToDeadline <= 48 * 60
                         THEN 1 ELSE 0
        bCriticalSoon == IF b.priorityScore >= 85 /\ bToDeadline <= 48 * 60
                         THEN 1 ELSE 0
        aSlack == aToDeadline - MathMax(a.remainingMinutes, SCHEDULE_SLOT_MINUTES)
        bSlack == bToDeadline - MathMax(b.remainingMinutes, SCHEDULE_SLOT_MINUTES)
    IN  IF aDueSoon # bDueSoon THEN (IF aDueSoon THEN 0 - 1 ELSE 1)
        ELSE IF gap >= 24 * 60 /\ (aDueSoon \/ bDueSoon)
             THEN aToDeadline - bToDeadline
        ELSE IF aCriticalSoon # bCriticalSoon THEN bCriticalSoon - aCriticalSoon
        ELSE IF a.priorityScore # b.priorityScore
             THEN b.priorityScore - a.priorityScore
        ELSE IF a.urgencyScore # b.urgencyScore
             THEN b.urgencyScore - a.urgencyScore
        ELSE IF aSlack # bSlack THEN aSlack - bSlack
        ELSE a.deadlineMs - b.deadlineMs

\* Array.prototype.sort on a short array (V8: binary insertion, stable):
\* the place of pivot in the sorted prefix
RECURSIVE InsertionPoint(_, _, _, _, _, _)
InsertionPoint(q, sorted, pivot, left, right, slotStart) ==
    IF ~(left < right) THEN left
    ELSE LET mid == left + ((right - left) \div 2)
         IN  IF CompareCandidates(q[pivot], q[sorted[mid + 1]], slotStart) < 0
             THEN InsertionPoint(q, sorted, pivot, left, mid, slotStart)
             ELSE InsertionPoint(q, sorted, pivot, mid + 1, right, slotStart)

RECURSIVE SortCandidates(_, _, _, _)
SortCandidates(q, sorted, rest, slotStart) ==
    IF rest = << >> THEN sorted
    ELSE LET at == InsertionPoint(q, sorted, Head(rest), 0, Len(sorted), slotStart)
         IN  SortCandidates(q,
                 SubSeq(sorted, 1, at) \o << Head(rest) >>
                     \o SubSeq(sorted, at + 1, Len(sorted)),
                 Tail(rest), slotStart)

\* the candidate list left in queue order
CandidatesUnsorted(q, slotStart, slotEnd, worked, cap) ==
    LET idx == [i \in 1..Len(q) |-> i]
    IN  SelectSeqRec(idx,
            [i \in 1..Len(q) |-> IsCandidate(q[i], slotStart, slotEnd, worked, cap)])

\* the sorted candidate list of a slot, as indices into the queue
Candidates(q, slotStart, slotEnd, worked, cap) ==
    LET idx == [i \in 1..Len(q) |-> i]
        kept == SelectSeqRec(idx,
                    [i \in 1..Len(q) |-> IsCandidate(q[i], slotStart, slotEnd, worked, cap)])
    IN  SortCandidates(q, << >>, kept, slotStart)

\* the predicate of candidates.find
Placeable(task, slotStart, dayEnd) ==
    IF task.isSplittable THEN TRUE
    ELSE IF task.remainingMinutes < task.totalRoundedMinutes THEN FALSE
    ELSE canFitContiguousBlock(slotStart, dayEnd, task.totalRoundedMinutes,
                               task.deadlineMs, task.notBeforeMs)

\* candidates.find(...): the index of the chosen queue item, 0 when undefined
RECURSIVE FirstPlaceable(_, _, _, _)
FirstPlaceable(q, cands, slotStart, dayEnd) ==
    IF cands = << >> THEN 0
    ELSE IF Placeable(q[Head(cands)], slotStart, dayEnd) THEN Head(cands)
         ELSE FirstPlaceable(q, Tail(cands), slotStart, dayEnd)

-----------------------------------------------------------------------------
(* Block post-processor *)

CanMergeBackwards(last, block) ==
    /\ last.taskId = block.taskId
    /\ last.startISO = block.endISO
    /\ last.calendarDescription = block.calendarDescription

CanMerge(last, block) ==
    /\ last.taskId = block.taskId
    /\ last.endISO = block.startISO
    /\ last.calendarDescription = block.calendarDescription

RECURSIVE MergeInto(_, _)
MergeInto(merged, rest) ==
    IF rest = << >> THEN merged
    ELSE IF merged # << >> /\ CanMerge(merged[Len(merged)], Head(rest))
         THEN MergeInto(
                  [merged EXCEPT ![Len(merged)] =
                      [@ EXCEPT !.endISO = Head(rest).endISO,
                                !.minutes = @ + Head(rest).minutes]],
                  Tail(rest))
         ELSE MergeInto(Append(merged, Head(rest)), Tail(rest))

mergeSequentialBlocks(bs) == IF Len(bs) <= 1 THEN bs ELSE MergeInto(<< >>, bs)

\* merged.push(block): the output holds the input's own object (index i)
PushedObjectIsInputs(i) == i

\* merged.push({ ...block }): the output holds a fresh object (index 0)
PushedObject(i) == 0

\* the argument list as the loop leaves it: "from" is the index of the input
\* object that the output's last element is, 0 when that element is a copy;
\* "last" is that element, which a merge assigns to
RECURSIVE InputAfterLoop(_, _, _, _)
InputAfterLoop(input, k, last, from) ==
    IF k > Len(input) THEN input
    ELSE IF k > 1 /\ CanMerge(last, input[k])
         THEN LET extended == [last EXCEPT !.endISO = input[k].endISO,
                                          !.minutes = @ + input[k].minutes]
              IN  InputAfterLoop(
                      IF from = 0 THEN input ELSE [input EXCEPT ![from] = extended],
                      k + 1, extended, from)
         ELSE InputAfterLoop(input, k + 1, input[k], PushedObject(k))

\* the argument of mergeSequentialBlocks after the call
InputAfterMerge(bs) ==
    IF Len(bs) <= 1 THEN bs ELSE InputAfterLoop(bs, 1, bs[1], 0)

\* mergedBlocks.filter(block => !blockOverlapsBusy(block, busyIntervals))
FinalOverlapFilter(bs, intervals) ==
    SelectSeqRec(bs, [i \in 1..Len(bs) |-> ~blockOverlapsBusy(bs[i], intervals)])

-----------------------------------------------------------------------------
(* generateWeeklySchedule as a state machine: one step per loop iteration *)

CurrentDay == workDays[dayIdx]
CurrentRule == RuleOrDefault(preferences, getDay(CurrentDay))
DayStartAtAnchor == CurrentDay
DayStart == setHours(CurrentDay, CurrentRule.startHour)
DayEnd == setHours(CurrentDay, CurrentRule.endHour)
FirstSlotStart ==
    IF isSameLocalDate(CurrentDay, schedulingStart)
    THEN maxDate(schedulingStart, DayStart)
    ELSE DayStart
SlotEnd == addMinutes(start, SCHEDULE_SLOT_MINUTES)

BreakTriggerFromShortBreak ==
    MathMin(preferences.breakEveryFocusMinutes, preferences.shortBreakMinutes)

BreakTriggerMinutes ==
    MathMin(preferences.breakEveryFocusMinutes,
            preferences.maxContinuousFocusMinutes)

\* the loop test and the two breaks at the top of the body
InSlotLoop ==
    /\ start < DayEnd
    /\ ~(SlotEnd > DayEnd)
    /\ ~(workedMinutesToday >= preferences.maxWorkMinutesPerDay)

SlotCandidates ==
    Candidates(queue, start, SlotEnd, workedMinutesToday,
               preferences.maxWorkMinutesPerDay)

Chosen == FirstPlaceable(queue, SlotCandidates, start, DayEnd)

NoSlot == [kind |-> "none", at |-> 0, task |-> 0]

\* no earlier call has returned
NoPreviousCall == [called |-> FALSE, blocks |-> << >>]

\* the ledger is not created anew by the call
GenerateBeginSharedLedger ==
    /\ pc = "begin"
    /\ preferences' = normalizeSchedulePreferences(preferencesInput)
    /\ schedulingStart' = getSchedulingStart(now, nowPartial, preferences')
    /\ workDays' = WorkDays(analysis, schedulingStart', preferences')
    /\ queue' = BuildQueue(analysis)
    /\ blocks' = << >>
    /\ plannedBusyIntervals' = plannedBusyIntervals
    /\ dayIdx' = 1
    /\ pc' = "day"
    /\ UNCHANGED << pageVars, oauthVars, candidates, previousResult, tz, now, nowPartial, analysis, busyIntervals,
                    preferencesInput, start, workedMinutesToday,
                    focusMinutesSinceBreak, lastSlot, mergedBlocks, result >>

\* normalize, scheduling start, horizon, queue
GenerateBegin ==
    /\ pc = "begin"
    /\ preferences' = normalizeSchedulePreferences(preferencesInput)
    /\ schedulingStart' = getSchedulingStart(now, nowPartial, preferences')
    /\ workDays' = WorkDays(analysis, schedulingStart', preferences')
    /\ queue' = BuildQueue(analysis)
    /\ blocks' = << >>
    /\ plannedBusyIntervals' = << >>
    /\ dayIdx' = 1
    /\ pc' = "day"
    /\ UNCHANGED << pageVars, oauthVars, candidates, previousResult, tz, now, nowPartial, analysis, busyIntervals,
                    preferencesInput, start, workedMinutesToday,
                    focusMinutesSinceBreak, lastSlot, mergedBlocks, result >>

\* top of the body of "for (const day of workDays)"
DayBegin ==
    /\ pc = "day"
    /\ dayIdx <= Len(workDays)
    /\ IF ~CurrentRule.enabled
       THEN /\ dayIdx' = dayIdx + 1
            /\ UNCHANGED << pc, start, workedMinutesToday, focusMinutesSinceBreak >>
       ELSE /\ start' = FirstSlotStart
            /\ workedMinutesToday' = 0
            /\ focusMinutesSinceBreak' = 0
            /\ pc' = "slot"
            /\ UNCHANGED dayIdx
    /\ lastSlot' = NoSlot
    /\ UNCHANGED << pageVars, oauthVars, candidates, previousResult, tz, now, nowPartial, analysis, busyIntervals,
                    preferencesInput, preferences, schedulingStart, workDays,
                    queue, blocks, plannedBusyIntervals, mergedBlocks, result >>

\* the slot loop of the day ends: window end or daily cap reached
DayEndReached ==
    /\ pc = "slot"
    /\ ~InSlotLoop
    /\ dayIdx' = dayIdx + 1
    /\ pc' = "day"
    /\ lastSlot' = NoSlot
    /\ UNCHANGED << pageVars, oauthVars, candidates, previousResult, tz, now, nowPartial, analysis, busyIntervals,
                    preferencesInput, preferences, schedulingStart, workDays,
                    queue, blocks, plannedBusyIntervals, start,
                    workedMinutesToday, focusMinutesSinceBreak, mergedBlocks,
                    result >>

SlotFrame ==
    UNCHANGED << pc, pageVars, oauthVars, candidates, previousResult, tz, now, nowPartial, analysis, busyIntervals,
                 preferencesInput, preferences, schedulingStart, workDays,
                 dayIdx, mergedBlocks, result >>

\* the caller-busy slot clears the focus counter as a planned-busy slot does
SlotCallerBusyClearsFocus ==
    /\ pc = "slot"
    /\ InSlotLoop
    /\ isOverlappingBusyWindow(start, SlotEnd, busyIntervals)
    /\ start' = addMinutes(start, SCHEDULE_SLOT_MINUTES)
    /\ lastSlot' = [kind |-> "busy", at |-> start, task |-> 0]
    /\ focusMinutesSinceBreak' = 0
    /\ UNCHANGED << queue, blocks, plannedBusyIntervals, workedMinutesToday >>
    /\ SlotFrame

\* the slot overlaps a caller busy interval: continue
SlotCallerBusy ==
    /\ pc = "slot"
    /\ InSlotLoop
    /\ isOverlappingBusyWindow(start, SlotEnd, busyIntervals)
    /\ start' = addMinutes(start, SCHEDULE_SLOT_MINUTES)
    /\ lastSlot' = [kind |-> "busy", at |-> start, task |-> 0]
    /\ UNCHANGED << queue, blocks, plannedBusyIntervals, workedMinutesToday,
                    focusMinutesSinceBreak >>
    /\ SlotFrame

\* the slot overlaps the planned-busy ledger: the focus counter is cleared
SlotPlannedBusy ==
    /\ pc = "slot"
    /\ InSlotLoop
    /\ ~isOverlappingBusyWindow(start, SlotEnd, busyIntervals)
    /\ isOverlappingBusyWindow(start, SlotEnd, plannedBusyIntervals)
    /\ focusMinutesSinceBreak' = 0
    /\ start' = addMinutes(start, SCHEDULE_SLOT_MINUTES)
    /\ lastSlot' = [kind |-> "planned", at |-> start, task |-> 0]
    /\ UNCHANGED << queue, blocks, plannedBusyIntervals, workedMinutesToday >>
    /\ SlotFrame

SlotIsFree ==
    /\ pc = "slot"
    /\ InSlotLoop
    /\ ~isOverlappingBusyWindow(start, SlotEnd, busyIntervals)
    /\ ~isOverlappingBusyWindow(start, SlotEnd, plannedBusyIntervals)

\* a break is due: it is recorded in the ledger and no task is placed
SlotBreak ==
    /\ SlotIsFree
    /\ focusMinutesSinceBreak >= BreakTriggerMinutes
    /\ plannedBusyIntervals' =
           Append(plannedBusyIntervals,
                  PlannedInterval(start,
                      MathMin(SCHEDULE_SLOT_MINUTES, preferences.shortBreakMinutes)))
    /\ focusMinutesSinceBreak' = 0
    /\ start' = addMinutes(start, SCHEDULE_SLOT_MINUTES)
    /\ lastSlot' = [kind |-> "break", at |-> start, task |-> 0]
    /\ UNCHANGED << queue, blocks, workedMinutesToday >>
    /\ SlotFrame

\* no candidate is placeable: the slot stays idle
SlotIdle ==
    /\ SlotIsFree
    /\ ~(focusMinutesSinceBreak >= BreakTriggerMinutes)
    /\ Chosen = 0
    /\ start' = addMinutes(start, SCHEDULE_SLOT_MINUTES)
    /\ lastSlot' = [kind |-> "idle", at |-> start, task |-> 0]
    /\ UNCHANGED << queue, blocks, plannedBusyIntervals, workedMinutesToday,
                    focusMinutesSinceBreak >>
    /\ SlotFrame

\* pushBlock(task, start, minutes) and the three counters
Place(chosen, minutes) ==
    /\ blocks' = Append(blocks, NewBlock(queue[chosen], start, minutes))
    /\ plannedBusyIntervals' =
           Append(plannedBusyIntervals, PlannedInterval(start, minutes))
    /\ workedMinutesToday' = workedMinutesToday + minutes
    /\ focusMinutesSinceBreak' = focusMinutesSinceBreak + minutes
    /\ start' = addMinutes(start, SCHEDULE_SLOT_MINUTES)
    /\ lastSlot' = [kind |-> "place", at |-> start, task |-> chosen]

PlaceNonSplittableBySlot ==
    /\ SlotIsFree
    /\ ~(focusMinutesSinceBreak >= BreakTriggerMinutes)
    /\ Chosen # 0
    /\ ~queue[Chosen].isSplittable
    /\ Place(Chosen, SCHEDULE_SLOT_MINUTES)
    /\ queue' = [queue EXCEPT ![Chosen].remainingMinutes = @ - SCHEDULE_SLOT_MINUTES]
    /\ SlotFrame

\* a non-splittable task takes its whole duration in one block
PlaceNonSplittable ==
    /\ SlotIsFree
    /\ ~(focusMinutesSinceBreak >= BreakTriggerMinutes)
    /\ Chosen # 0
    /\ ~queue[Chosen].isSplittable
    /\ Place(Chosen, queue[Chosen].totalRoundedMinutes)
    /\ queue' = [queue EXCEPT ![Chosen].remainingMinutes = 0]
    /\ SlotFrame

\* a splittable task takes one slot
PlaceSplittable ==
    /\ SlotIsFree
    /\ ~(focusMinutesSinceBreak >= BreakTriggerMinutes)
    /\ Chosen # 0
    /\ queue[Chosen].isSplittable
    /\ Place(Chosen, SCHEDULE_SLOT_MINUTES)
    /\ queue' = [queue EXCEPT ![Chosen].remainingMinutes = @ - SCHEDULE_SLOT_MINUTES]
    /\ SlotFrame

\* after the last day: merge, filter, return
Finish ==
    /\ pc = "day"
    /\ dayIdx > Len(workDays)
    /\ mergedBlocks' = mergeSequentialBlocks(blocks)
    /\ result' = FinalOverlapFilter(mergedBlocks', busyIntervals)
    /\ pc' = "done"
    /\ lastSlot' = NoSlot
    /\ UNCHANGED << pageVars, oauthVars, candidates, previousResult, tz, now, nowPartial, analysis, busyIntervals,
                    preferencesInput, preferences, schedulingStart, workDays,
                    queue, blocks, plannedBusyIntervals, dayIdx, start,
                    workedMinutesToday, focusMinutesSinceBreak >>

Next ==
    \/ GenerateBegin
    \/ DayBegin
    \/ DayEndReached
    \/ SlotCallerBusy
    \/ SlotPlannedBusy
    \/ SlotBreak
    \/ SlotIdle
    \/ PlaceNonSplittable
    \/ PlaceSplittable
    \/ Finish

-----------------------------------------------------------------------------
(* Inputs of a run *)

MaxTasks == 2
MaxBusy == 1

\* a local wall-clock reading: day (0 = the epoch's Sunday), hour, minute
At(day, hour, minute) == day * MinutesPerDay + hour * 60 + minute

\* an ISO string that parses to the instant of a local reading in zone z
Iso(local, z) == [ok |-> TRUE, t |-> local + z]
InvalidIso == [ok |-> FALSE, t |-> 0]

NoNotBefore == [k |-> "null", ok |-> FALSE, t |-> 0]
NotBeforeAt(local, z) == [k |-> "string", ok |-> TRUE, t |-> local + z]
NotBeforeUnparseable == [k |-> "string", ok |-> FALSE, t |-> 0]

Task(hours, deadline, splittable, notBefore, priority, urgency) ==
    [id |-> 0, title |-> "title", details |-> "details", deadline |-> deadline,
     estimatedHours |-> hours, urgencyScore |-> urgency,
     priorityScore |-> priority, priorityLabel |-> "Medium",
     isSplittable |-> splittable, notBeforeISO |-> notBefore]

\* task shapes for the first position of the analysis list (day 8 is a Monday)
TaskPoolA(z) ==
    { Task(100, Iso(At(8, 11, 0), z), "true", NoNotBefore, 50, 50),
      Task(400, Iso(At(8, 10, 0), z), "undefined", NoNotBefore, 90, 70),
      Task(50, Iso(At(12, 12, 0), z), "true", NotBeforeAt(At(9, 9, 30), z), 50, 50),
      Task(100, Iso(At(8, 11, 0), z), "false", NotBeforeUnparseable, 50, 50) }

\* task shapes for the second position
TaskPoolB(z) ==
    { Task(75, Iso(At(9, 11, 0), z), "false", NoNotBefore, 90, 50),
      Task(150, Iso(At(9, 10, 30), z), "false", NotBeforeAt(At(8, 10, 0), z), 50, 80),
      Task(250, Iso(At(9, 11, 0), z), "false", NoNotBefore, 95, 50),
      Task(100, Iso(At(8, 11, 0), z), "true", NoNotBefore, 50, 50),
      Task(50, InvalidIso, "true", NoNotBefore, 50, 50),
      Task(0, Iso(At(9, 11, 0), z), "true", NoNotBefore, 50, 50) }

\* task shapes for the positions after the second
TaskPoolC(z) ==
    { Task(100, Iso(At(9, 11, 0), z), "true", NoNotBefore, 70, 50),
      Task(50, Iso(At(8, 11, 0), z), "false", NoNotBefore, 50, 60) }

TaskPool(i, z) ==
    IF i = 1 THEN TaskPoolA(z) ELSE IF i = 2 THEN TaskPoolB(z) ELSE TaskPoolC(z)

\* the analysis lists: at most MaxTasks tasks, ids unique (the position)
RECURSIVE AnalysisLists(_, _)
AnalysisLists(n, z) ==
    IF n = 0 THEN { << >> }
    ELSE LET shorter == AnalysisLists(n - 1, z)
         IN  shorter \cup
             { Append(l, [t EXCEPT !.id = n]) :
                 l \in { x \in shorter : Len(x) = n - 1 }, t \in TaskPool(n, z) }

Busy(startISO, endISO) == [startISO |-> startISO, endISO |-> endISO]

\* busy intervals: on the slot grid, off it, empty, inverted, unparseable
BusyPool(z) ==
    { Busy(Iso(At(8, 9, 30), z), Iso(At(8, 10, 0), z)),
      Busy(Iso(At(8, 10, 10), z), Iso(At(8, 10, 20), z)),
      Busy(Iso(At(8, 10, 0), z), Iso(At(8, 10, 0), z)),
      Busy(Iso(At(9, 9, 45), z), Iso(At(9, 9, 15), z)),
      Busy(InvalidIso, Iso(At(9, 11, 0), z)) }

\* busy intervals for the positions after the first: on the grid, empty
BusyPoolFurther(z) ==
    { Busy(Iso(At(9, 9, 0), z), Iso(At(9, 9, 30), z)),
      Busy(Iso(At(8, 9, 30), z), Iso(At(8, 9, 30), z)) }

RECURSIVE BusyLists(_, _)
BusyLists(n, z) ==
    IF n = 0 THEN { << >> }
    ELSE LET shorter == BusyLists(n - 1, z)
         IN  shorter \cup
             { Append(l, b) : l \in { x \in shorter : Len(x) = n - 1 },
                              b \in IF n = 1 THEN BusyPool(z) ELSE BusyPoolFurther(z) }

\* values of a loosely typed payload
Undefined == [k |-> "undefined", cls |-> "none", n |-> 0, b |-> FALSE]
Null == [k |-> "null", cls |-> "none", n |-> 0, b |-> FALSE]
Str == [k |-> "string", cls |-> "none", n |-> 0, b |-> FALSE]
Bool(v) == [k |-> "boolean", cls |-> "none", n |-> 0, b |-> v]
Num(x) == [k |-> "number", cls |-> "finite", n |-> 2 * x, b |-> FALSE]
Halves(h) == [k |-> "number", cls |-> "finite", n |-> h, b |-> FALSE]
NumNaN == [k |-> "number", cls |-> "NaN", n |-> 0, b |-> FALSE]
NumInfinity == [k |-> "number", cls |-> "Infinity", n |-> 0, b |-> FALSE]
NumNegInfinity == [k |-> "number", cls |-> "-Infinity", n |-> 0, b |-> FALSE]

Array(items) == [k |-> "array", items |-> items]
NoArray == [k |-> "undefined", items |-> << >>]

RuleItem(weekday, enabled, startHour, endHour) ==
    [k |-> "object", weekday |-> weekday, enabled |-> enabled,
     startHour |-> startHour, endHour |-> endHour]

Object(dayRules, startHour, endHour, activeWeekdays, maxWork, every, short, maxCont) ==
    [k |-> "object", dayRules |-> dayRules, startHour |-> startHour,
     endHour |-> endHour, activeWeekdays |-> activeWeekdays,
     maxWorkMinutesPerDay |-> maxWork, breakEveryFocusMinutes |-> every,
     shortBreakMinutes |-> short, maxContinuousFocusMinutes |-> maxCont]

\* preference payloads of the allocation runs: short windows on two weekdays
SchedulePreferenceInputs ==
    { Object(NoArray, Num(9), Num(11), Array(<< Num(1), Num(2) >>),
             Undefined, Num(60), Undefined, Undefined),
      Object(NoArray, Num(9), Num(11), Array(<< Num(2), Num(1) >>),
             Num(60), Num(30), Num(5), Num(30)),
      Object(Array(<< RuleItem(Num(0), Bool(FALSE), Undefined, Undefined),
                      RuleItem(Num(1), Undefined, Halves(19), Num(11)),
                      RuleItem(Num(2), Bool(TRUE), Num(10), Num(11)),
                      RuleItem(Num(3), Bool(FALSE), Undefined, Undefined),
                      RuleItem(Num(4), Bool(FALSE), Undefined, Undefined),
                      RuleItem(Num(5), Bool(FALSE), Undefined, Undefined),
                      RuleItem(Num(6), Bool(FALSE), Undefined, Undefined) >>),
             Undefined, Undefined, NoArray, Num(90), Undefined, Undefined, Undefined),
      Object(NoArray, Num(9), Num(10), Array(<< Num(2), Num(3) >>),
             Num(90), Num(360), Undefined, Undefined) }

\* "now": on the grid, on the grid with seconds, late in Monday's window
NowInputs(z) ==
    { << At(8, 9, 0) + z, FALSE >>,
      << At(8, 9, 0) + z, TRUE >>,
      << At(8, 10, 40) + z, FALSE >> }

\* no call is queued behind the running refresh
NothingQueued == [queued |-> FALSE, silent |-> TRUE]

\* no schedule has been set
NoSchedule == [set |-> FALSE, from |-> << >>, by |-> "none"]

\* the page is not rendered
PageNotMounted ==
    /\ inputs = << >>
    /\ effectPending = FALSE
    /\ scheduleRequestInFlight = FALSE
    /\ queuedScheduleRefresh = NothingQueued
    /\ requests = << >>
    /\ schedule = NoSchedule
    /\ scheduleLoading = FALSE
    /\ coalesced = {}

\* a cookie the browser does not hold; ok says that the payload decrypts
NoCookie == [present |-> FALSE, ok |-> FALSE, value |-> 0]

NoCallback == [outcome |-> "none", repeated |-> FALSE, savedTokens |-> FALSE]

\* no sign-in has been started
NoSignIn ==
    /\ stateCookie = NoCookie
    /\ tokenCookie = NoCookie
    /\ callbacks = << >>
    /\ responses = << >>
    /\ lastCallback = NoCallback
    /\ handledStates = {}
    /\ issuedStates = 0

InitRun ==
    /\ preferences = DEFAULT_SCHEDULE_PREFERENCES
    /\ schedulingStart = 0
    /\ workDays = << >>
    /\ queue = << >>
    /\ blocks = << >>
    /\ plannedBusyIntervals = << >>
    /\ dayIdx = 0
    /\ start = 0
    /\ workedMinutesToday = 0
    /\ focusMinutesSinceBreak = 0
    /\ lastSlot = NoSlot
    /\ mergedBlocks = << >>
    /\ result = << >>
    /\ previousResult = NoPreviousCall
    /\ candidates = << >>
    /\ PageNotMounted
    /\ NoSignIn

\* the stored default preferences, passed as they are
DefaultPreferencesInput ==
    Object(Array([i \in 1..7 |->
                     RuleItem(Num(i - 1), Bool(TRUE), Num(DefaultStartHour),
                              Num(DefaultEndHour))]),
           Undefined, Undefined, NoArray,
           Num(DefaultMaxWorkMinutesPerDay), Num(DefaultBreakEveryFocusMinutes),
           Num(DefaultShortBreakMinutes), Num(DefaultMaxContinuousFocusMinutes))

\* the free-week scenario: "now" over a Monday, before, inside and after the
\* default window, on and off the slot grid
FreeWeekNowInputs ==
    { << At(8, h, m), p >> : h \in { 0, 7, 8, 12, 19, 20, 21, 22, 23 },
                             m \in { 0, 15, 30, 59 }, p \in BOOLEAN }

\* one splittable task of two hours, due five days after "now"
FreeWeekTask(t) ==
    [Task(200, [ok |-> TRUE, t |-> t + 5 * MinutesPerDay], "true",
          NoNotBefore, 50, 50) EXCEPT !.id = 1]

\* runs over task lists, busy lists and short-window preferences
InitGeneral ==
    /\ tz = 0 - 345
    /\ \E n \in NowInputs(tz) : now = n[1] /\ nowPartial = n[2]
    /\ analysis \in AnalysisLists(MaxTasks, tz)
    /\ busyIntervals \in BusyLists(MaxBusy, tz)
    /\ preferencesInput \in SchedulePreferenceInputs

\* runs of the single task in a free week with the default preferences
InitFreeWeek ==
    /\ tz = 0
    /\ \E n \in FreeWeekNowInputs : now = n[1] /\ nowPartial = n[2]
    /\ analysis = << FreeWeekTask(now) >>
    /\ busyIntervals = << >>
    /\ preferencesInput = DefaultPreferencesInput

\* the break scenario: both focus knobs at 90 minutes, default windows
BreakScenarioPreferencesInput ==
    Object(NoArray, Undefined, Undefined, NoArray, Undefined, Num(90), Undefined, Num(90))

\* one non-splittable task of 150 minutes, due on the next day at 23:00
BreakScenarioTask ==
    [Task(250, Iso(At(9, 23, 0), 0), "false", NoNotBefore, 50, 50) EXCEPT !.id = 1]

\* runs of the break scenario, "now" before Monday's window opens
InitBreakScenario ==
    /\ tz = 0
    /\ now = At(8, 7, 0)
    /\ nowPartial = FALSE
    /\ analysis = << BreakScenarioTask >>
    /\ busyIntervals = << >>
    /\ preferencesInput = BreakScenarioPreferencesInput

\* "now" across a week of short windows: before, inside, at the last slot
\* of, at the end of and after a window, on and off the slot grid, on
\* enabled and disabled weekdays (day 8 is a Monday, day 13 a Saturday)
SchedulingStartNowInputs(z) ==
    { << At(d, hm[1], hm[2]) + z, p >> :
        d \in { 8, 9, 10, 13 },
        hm \in { << 8, 30 >>, << 9, 0 >>, << 9, 10 >>, << 10, 30 >>,
                 << 10, 31 >>, << 11, 0 >>, << 12, 0 >> },
        p \in BOOLEAN }

\* one splittable task of one hour, due eight days after "now"
SchedulingStartTask(t) ==
    [Task(100, [ok |-> TRUE, t |-> t + 8 * MinutesPerDay], "true",
          NoNotBefore, 50, 50) EXCEPT !.id = 1]

\* runs of one small task from many values of "now"
InitSchedulingStart ==
    /\ tz = 0 - 345
    /\ \E n \in SchedulingStartNowInputs(tz) : now = n[1] /\ nowPartial = n[2]
    /\ analysis = << SchedulingStartTask(now) >>
    /\ busyIntervals = << >>
    /\ preferencesInput \in SchedulePreferenceInputs

\* one-hour windows on every weekday
HorizonPreferencesInput ==
    Object(NoArray, Num(9), Num(10), NoArray, Undefined, Undefined, Undefined, Undefined)

\* how far after "now" the deadline lies: days and minutes
HorizonDeadlineOffsets ==
    { << 2, 0 >>, << 10, 0 >>, << 10, 30 >>, << 58, 1410 >>, << 59, 0 >>,
      << 59, 30 >>, << 59, 1410 >>, << 61, 0 >>, << 100, 0 >> }

\* one splittable task of one hour that may start from a given day on
HorizonTask(deadline, notBeforeDay, z) ==
    [Task(100, [ok |-> TRUE, t |-> deadline], "true",
          IF notBeforeDay = 0 THEN NoNotBefore
          ELSE NotBeforeAt(At(notBeforeDay, 9, 0), z), 50, 50) EXCEPT !.id = 1]

\* runs over near and far deadlines, "now" on a Monday inside the window
InitHorizon ==
    /\ tz = 0 - 345
    /\ now \in { At(8, 9, 0) + tz, At(8, 9, 30) + tz }
    /\ nowPartial = FALSE
    /\ \E off \in HorizonDeadlineOffsets, nb \in { 0, 17, 67, 68 } :
          analysis = << HorizonTask(now + off[1] * MinutesPerDay + off[2], nb, tz) >>
    /\ busyIntervals = << >>
    /\ preferencesInput = HorizonPreferencesInput

Init ==
    /\ pc = "begin"
    /\ \/ InitGeneral
       \/ InitFreeWeek
       \/ InitBreakScenario
       \/ InitSchedulingStart
       \/ InitHorizon
    /\ InitRun

Spec == Init /\ [][Next]_vars

-----------------------------------------------------------------------------
(* Properties of the returned schedule *)

\* the instants a block's local strings denote
BlockStart(b) == parseLocalISO(b.startISO)
BlockEnd(b) == parseLocalISO(b.endISO)

\* the input task a block belongs to (ids are the positions in analysis)
TaskOf(b) == analysis[b.taskId]

RangesOverlap(s1, e1, s2, e2) == s1 < e2 /\ e1 > s2

BlocksOf(bs, id) == { i \in 1..Len(bs) : bs[i].taskId = id }

RECURSIVE SumOfMinutes(_, _)
SumOfMinutes(bs, id) ==
    IF bs = << >> THEN 0
    ELSE (IF Head(bs).taskId = id THEN Head(bs).minutes ELSE 0)
         + SumOfMinutes(Tail(bs), id)

\* effort (hundredths of an hour) rounded up to whole slots, stated apart
\* from the queue: the least multiple of 30 minutes that covers it
RoundedUpEffort(hours) ==
    CHOOSE m \in { SCHEDULE_SLOT_MINUTES * k : k \in 1..40 } :
        /\ m * 100 >= hours * 60
        /\ \A k \in 1..40 :
               SCHEDULE_SLOT_MINUTES * k * 100 >= hours * 60
                   => m <= SCHEDULE_SLOT_MINUTES * k

ValidBusy(i) == busyIntervals[i].startISO.ok /\ busyIntervals[i].endISO.ok

\* C1: no double-booking. The returned blocks do not overlap one another,
\* and none overlaps a caller-supplied busy interval.
C1_NoDoubleBooking ==
    pc = "done" =>
        /\ \A i, j \in 1..Len(result) :
               i # j => ~RangesOverlap(BlockStart(result[i]), BlockEnd(result[i]),
                                       BlockStart(result[j]), BlockEnd(result[j]))
        /\ \A i \in 1..Len(result), k \in 1..Len(busyIntervals) :
               ValidBusy(k) =>
                   ~RangesOverlap(BlockStart(result[i]), BlockEnd(result[i]),
                                  busyIntervals[k].startISO.t,
                                  busyIntervals[k].endISO.t)

\* a returned schedule with a whole-duration block, a further block and a
\* caller busy interval in force
C1_Witness ==
    /\ pc = "done"
    /\ Len(result) >= 2
    /\ \E i \in 1..Len(result) : ~(TaskOf(result[i]).isSplittable # "false")
    /\ \E k \in 1..Len(busyIntervals) :
           ValidBusy(k) /\ busyIntervals[k].startISO.t < busyIntervals[k].endISO.t

\* C2: deadline respect. Every returned block, merged or not, ends at or
\* before the deadline instant of its task.
C2_DeadlineRespected ==
    pc = "done" =>
        \A i \in 1..Len(result) :
            /\ TaskOf(result[i]).deadline.ok
            /\ BlockEnd(result[i]) <= TaskOf(result[i]).deadline.t

\* a merged block that ends exactly at its task's deadline
C2_Witness ==
    /\ pc = "done"
    /\ \E i \in 1..Len(result) :
           /\ result[i].minutes > SCHEDULE_SLOT_MINUTES
           /\ TaskOf(result[i]).isSplittable # "false"
           /\ BlockEnd(result[i]) = TaskOf(result[i]).deadline.t

\* C3: notBefore respect. Every returned block of a task with a valid
\* notBefore instant starts at or after that instant.
C3_NotBeforeRespected ==
    pc = "done" =>
        \A i \in 1..Len(result) :
            (TaskOf(result[i]).notBeforeISO.k = "string"
                 /\ TaskOf(result[i]).notBeforeISO.ok)
                => BlockStart(result[i]) >= TaskOf(result[i]).notBeforeISO.t

\* a block of a gated task, placed after slots before the gate were walked
C3_Witness ==
    /\ pc = "done"
    /\ \E i \in 1..Len(result) :
           /\ TaskOf(result[i]).notBeforeISO.k = "string"
           /\ TaskOf(result[i]).notBeforeISO.ok
           /\ schedulingStart < TaskOf(result[i]).notBeforeISO.t
           /\ BlockStart(result[i]) = TaskOf(result[i]).notBeforeISO.t

\* C4: effort conservation. remainingMinutes of every queue item stays
\* between 0 and totalRoundedMinutes at every point of the run, and the
\* returned minutes of a splittable task never exceed its effort rounded up
\* to whole slots.
C4_EffortConserved ==
    /\ \A i \in 1..Len(queue) :
           /\ 0 <= queue[i].remainingMinutes
           /\ queue[i].remainingMinutes <= queue[i].totalRoundedMinutes
    /\ pc = "done" =>
           \A id \in 1..Len(analysis) :
               (analysis[id].isSplittable # "false"
                    /\ BlocksOf(result, id) # { })
                   => SumOfMinutes(result, id)
                          <= RoundedUpEffort(analysis[id].estimatedHours)

\* a splittable task returned in several blocks that add up to its effort
C4_Witness ==
    /\ pc = "done"
    /\ \E id \in 1..Len(analysis) :
           /\ analysis[id].isSplittable # "false"
           /\ Cardinality(BlocksOf(result, id)) >= 2
           /\ SumOfMinutes(result, id) = RoundedUpEffort(analysis[id].estimatedHours)

\* C5: non-splittable atomicity. A task with isSplittable === false is
\* returned as at most one block, of its full rounded effort; its
\* remainingMinutes is only ever the full total or 0.
C5_NonSplittableAtomic ==
    /\ \A i \in 1..Len(queue) :
           ~queue[i].isSplittable =>
               queue[i].remainingMinutes \in { 0, queue[i].totalRoundedMinutes }
    /\ pc = "done" =>
           \A id \in 1..Len(analysis) :
               analysis[id].isSplittable = "false" =>
                   /\ Cardinality(BlocksOf(result, id)) <= 1
                   /\ \A i \in BlocksOf(result, id) :
                          result[i].minutes
                              = RoundedUpEffort(analysis[id].estimatedHours)

\* a non-splittable task of more than one slot returned as one block, after
\* another task took slots of the same run
C5_Witness ==
    /\ pc = "done"
    /\ Len(result) >= 2
    /\ \E i \in 1..Len(result) :
           /\ TaskOf(result[i]).isSplittable = "false"
           /\ result[i].minutes > 2 * SCHEDULE_SLOT_MINUTES

\* the runs of the free-week scenario
IsFreeWeekRun ==
    /\ analysis = << FreeWeekTask(now) >>
    /\ busyIntervals = << >>
    /\ preferencesInput = DefaultPreferencesInput

LocalDayOf(t) == LocalOf(t) \div MinutesPerDay

AllOnSchedulingStartDay ==
    \A i \in 1..Len(result) :
        /\ LocalDayOf(BlockStart(result[i])) = LocalDayOf(schedulingStart)
        /\ LocalDayOf(BlockEnd(result[i]) - 1) = LocalDayOf(schedulingStart)

NoTwoOverlap ==
    \A i, j \in 1..Len(result) :
        i # j => ~RangesOverlap(BlockStart(result[i]), BlockEnd(result[i]),
                                BlockStart(result[j]), BlockEnd(result[j]))

\* C6: infeasible tasks are excluded entirely. Every task that has a block
\* in the returned schedule is fully placed: its returned minutes are its
\* whole rounded effort.
C6_InfeasibleExcluded ==
    pc = "done" =>
        \A id \in 1..Len(analysis) :
            BlocksOf(result, id) # { } =>
                SumOfMinutes(result, id) = RoundedUpEffort(analysis[id].estimatedHours)

\* C7 as claimed: in the free-week scenario, for every "now", the blocks all
\* lie on the earliest eligible day, total 120 minutes and do not overlap.
C7_FreeWeekOnFirstDay ==
    (pc = "done" /\ IsFreeWeekRun) =>
        /\ AllOnSchedulingStartDay
        /\ SumOfMinutes(result, 1) = 120
        /\ NoTwoOverlap

\* C7 as amended: the blocks total 120 minutes and do not overlap, on the
\* earliest eligible day and at most the day after; they all lie on the
\* earliest eligible day when at least 150 minutes (four work slots and the
\* break slot) remain between the scheduling start and 23:00 of that day.
C7_FreeWeekTotal ==
    (pc = "done" /\ IsFreeWeekRun) =>
        /\ SumOfMinutes(result, 1) = 120
        /\ NoTwoOverlap
        /\ \A i \in 1..Len(result) :
               /\ BlockStart(result[i]) >= schedulingStart
               /\ LocalDayOf(BlockEnd(result[i]) - 1)
                      <= LocalDayOf(schedulingStart) + 1
        /\ addMinutes(schedulingStart, 150) <= setHours(schedulingStart, DefaultEndHour)
               => AllOnSchedulingStartDay

\* a free-week run that starts inside the window with exactly 150 minutes
\* left and returns the work around the break on that one day
C7_Witness ==
    /\ pc = "done"
    /\ IsFreeWeekRun
    /\ addMinutes(schedulingStart, 150) = setHours(schedulingStart, DefaultEndHour)
    /\ Len(result) = 2
    /\ AllOnSchedulingStartDay

-----------------------------------------------------------------------------
(* normalizeSchedulePreferences on its own: the payloads *)

\* property values of a loosely typed payload
ScalarPool ==
    { Undefined, Null, Num(0), Num(45), Halves(181), Num(2000), NumNaN,
      NumInfinity, NumNegInfinity }

WeekdayPool ==
    { Num(0), Num(3), Num(6), Num(7), Num(0 - 1), Halves(3), Undefined, NumNaN }

EnabledPool == { Bool(TRUE), Bool(FALSE), Undefined, Str }

\* startHour, endHour pairs: absent, in order, inverted, out of range,
\* fractional, equal, not finite
HourPairs ==
    { << Undefined, Undefined >>, << Num(9), Num(17) >>, << Num(17), Num(9) >>,
      << Num(0 - 3), Num(30) >>, << Halves(17), Halves(47) >>,
      << Num(12), Num(12) >>, << Num(24), Num(24) >>, << Num(0), Num(1) >>,
      << NumNaN, Num(10) >>, << Num(10), NumNaN >>,
      << NumInfinity, NumNegInfinity >>, << Str, Null >> }

NoKnobs(dayRules, startHour, endHour, activeWeekdays) ==
    Object(dayRules, startHour, endHour, activeWeekdays,
           Undefined, Undefined, Undefined, Undefined)

\* dayRules with one entry, or one entry after something that is no object
OneRuleInputs ==
    { NoKnobs(Array(pre \o << RuleItem(w, e, h[1], h[2]) >>),
              Undefined, Undefined, NoArray) :
        w \in WeekdayPool, e \in EnabledPool, h \in HourPairs,
        pre \in { << >>, << [k |-> "null"] >> } }

\* dayRules with one entry per weekday, each enabled or not, sharing a window
SevenRuleInputs ==
    { NoKnobs(Array([i \in 1..7 |-> RuleItem(Num(i - 1), Bool(en[i]), Num(9), Num(17))]),
              Undefined, Undefined, NoArray) :
        en \in [1..7 -> BOOLEAN] }

\* a disabled rule for every weekday, then a second rule for one weekday
DuplicateRuleInputs ==
    { NoKnobs(Array([i \in 1..7 |-> RuleItem(Num(i - 1), Bool(FALSE), Num(9), Num(17))]
                    \o << RuleItem(w, e, Num(6), Num(12)) >>),
              Undefined, Undefined, NoArray) :
        w \in WeekdayPool, e \in EnabledPool }

ActiveWeekdaysPool ==
    { NoArray, Array(<< >>), Array(<< Num(1), Num(1), Num(5) >>),
      Array(<< Num(7), Str, Halves(3), Num(0 - 1) >>),
      Array(<< Num(0), Num(1), Num(2), Num(3), Num(4), Num(5), Num(6) >>),
      Array(<< Halves(5), Num(6), NumNaN >>) }

LegacyInputs ==
    { NoKnobs(NoArray, h[1], h[2], a) : h \in HourPairs, a \in ActiveWeekdaysPool }

KnobInputs ==
    { Object(NoArray, Undefined, Undefined, NoArray, a, b, c, d) :
        a \in ScalarPool, b \in ScalarPool, c \in ScalarPool, d \in ScalarPool }

\* null, undefined, a number, a string, a boolean, an array
NonRecordInputs ==
    { [k |-> "null"], [k |-> "undefined"], [k |-> "number"], [k |-> "string"],
      [k |-> "boolean"], [k |-> "array"] }

InitNormalize ==
    /\ pc = "normalize"
    /\ \/ preferencesInput \in OneRuleInputs
       \/ preferencesInput \in SevenRuleInputs
       \/ preferencesInput \in DuplicateRuleInputs
       \/ preferencesInput \in LegacyInputs
       \/ preferencesInput \in KnobInputs
       \/ preferencesInput \in NonRecordInputs
    /\ tz = 0
    /\ now = 0
    /\ nowPartial = FALSE
    /\ analysis = << >>
    /\ busyIntervals = << >>
    /\ InitRun

\* a call of normalizeSchedulePreferences(preferencesInput)
NormalizeCall ==
    /\ pc = "normalize"
    /\ preferences' = normalizeSchedulePreferences(preferencesInput)
    /\ pc' = "normalized"
    /\ UNCHANGED << pageVars, oauthVars, candidates, previousResult, tz, now, nowPartial, analysis, busyIntervals,
                    preferencesInput, schedulingStart, workDays, queue, blocks,
                    plannedBusyIntervals, dayIdx, start, workedMinutesToday,
                    focusMinutesSinceBreak, lastSlot, mergedBlocks, result >>

\* a number of a returned SchedulePreferences, as a payload value
NumOf(x) ==
    IF IsNaN(x) THEN NumNaN
    ELSE IF x = Infinity THEN NumInfinity
    ELSE IF x = 0 - Infinity THEN NumNegInfinity
    ELSE Num(x)

\* a returned SchedulePreferences passed on as the "unknown" argument of
\* the next call: dayRules is an array, the legacy properties are absent
AsPayload(prefs) ==
    Object(Array([i \in 1..Len(prefs.dayRules) |->
                     RuleItem(NumOf(prefs.dayRules[i].weekday),
                              Bool(prefs.dayRules[i].enabled),
                              NumOf(prefs.dayRules[i].startHour),
                              NumOf(prefs.dayRules[i].endHour))]),
           Undefined, Undefined, NoArray,
           NumOf(prefs.maxWorkMinutesPerDay), NumOf(prefs.breakEveryFocusMinutes),
           NumOf(prefs.shortBreakMinutes), NumOf(prefs.maxContinuousFocusMinutes))

\* generateWeeklySchedule normalizes what the route has normalized
NormalizeAgainCall ==
    /\ pc = "normalized"
    /\ preferences' = normalizeSchedulePreferences(AsPayload(preferences))
    /\ pc' = "renormalized"
    /\ UNCHANGED << pageVars, oauthVars, candidates, previousResult, tz, now, nowPartial, analysis, busyIntervals,
                    preferencesInput, schedulingStart, workDays, queue, blocks,
                    plannedBusyIntervals, dayIdx, start, workedMinutesToday,
                    focusMinutesSinceBreak, lastSlot, mergedBlocks, result >>

NextNormalize == NormalizeCall \/ NormalizeAgainCall

SpecNormalize == InitNormalize /\ [][NextNormalize]_vars

-----------------------------------------------------------------------------
(* Properties of the normalizer *)

\* C8: normalization is total. For every payload (null, non-objects, arrays,
\* objects with damaged, duplicate or out-of-range dayRules, the legacy
\* shape) the call returns, and the result has exactly seven day rules, one
\* per weekday 0..6 in ascending order, at least one of them enabled.
C8_NormalizationTotal ==
    pc = "normalized" =>
        /\ Len(preferences.dayRules) = 7
        /\ \A i \in 1..7 : preferences.dayRules[i].weekday = i - 1
        /\ \E i \in 1..7 : preferences.dayRules[i].enabled = TRUE

\* a payload whose dayRules name one weekday twice and one out of range
C8_Witness ==
    /\ pc = "normalized"
    /\ preferencesInput \in DuplicateRuleInputs
    /\ preferencesInput.dayRules.items[8].weekday = Num(3)
    /\ preferences.dayRules[4].startHour = 6

InHourRange(rule) ==
    /\ ~IsNaN(rule.startHour) /\ ~IsNaN(rule.endHour)
    /\ 0 <= rule.startHour /\ rule.startHour <= 23
    /\ 1 <= rule.endHour /\ rule.endHour <= 24
    /\ rule.startHour < rule.endHour

InRange(x, lo, hi) == ~IsNaN(x) /\ lo <= x /\ x <= hi

\* C9: normalized values are in range. Every returned day rule has
\* 0 <= startHour <= 23, 1 <= endHour <= 24, startHour < endHour, and the
\* four wellness values lie in 60..960, 30..360, 5..60 and 30..480.
C9_NormalizedInRange ==
    pc = "normalized" =>
        /\ \A i \in 1..Len(preferences.dayRules) : InHourRange(preferences.dayRules[i])
        /\ InRange(preferences.maxWorkMinutesPerDay, 60, 960)
        /\ InRange(preferences.breakEveryFocusMinutes, 30, 360)
        /\ InRange(preferences.shortBreakMinutes, 5, 60)
        /\ InRange(preferences.maxContinuousFocusMinutes, 30, 480)

\* the last dayRules entry of weekday w that survives parsing, << >> if none
RECURSIVE LastEntryOf(_, _)
LastEntryOf(items, w) ==
    IF items = << >> THEN << >>
    ELSE LET last == items[Len(items)]
         IN  IF last.k = "object" /\ NumberIsInteger(last.weekday)
                  /\ IntegerOf(last.weekday) = w
             THEN << last >>
             ELSE LastEntryOf(SubSeq(items, 1, Len(items) - 1), w)

\* the payload leaves no weekday enabled: every weekday's last dayRules
\* entry says enabled: false, or the legacy activeWeekdays list names no
\* weekday 0..6
NoDayEnabledInInput ==
    /\ preferencesInput.k = "object"
    /\ IF preferencesInput.dayRules.k = "array"
       THEN \A w \in 0..6 :
                /\ LastEntryOf(preferencesInput.dayRules.items, w) # << >>
                /\ LastEntryOf(preferencesInput.dayRules.items, w)[1].enabled
                       = Bool(FALSE)
       ELSE /\ preferencesInput.activeWeekdays.k = "array"
            /\ \A i \in 1..Len(preferencesInput.activeWeekdays.items) :
                   ~(/\ NumberIsInteger(preferencesInput.activeWeekdays.items[i])
                     /\ IntegerOf(preferencesInput.activeWeekdays.items[i]) \in 0..6)

\* C10: all days disabled falls back to the defaults. When the payload
\* leaves no weekday enabled, the returned day rules are the seven default
\* rules, all enabled with the window 8..23.
C10_AllDisabledFallsBack ==
    (pc = "normalized" /\ NoDayEnabledInInput) =>
        /\ Len(preferences.dayRules) = 7
        /\ \A i \in 1..7 :
               preferences.dayRules[i]
                   = [weekday |-> i - 1, enabled |-> TRUE,
                      startHour |-> 8, endHour |-> 23]

\* seven supplied rules, all disabled, with a window of their own
C10_Witness ==
    /\ pc = "normalized"
    /\ NoDayEnabledInInput
    /\ preferencesInput \in SevenRuleInputs
    /\ preferences.dayRules[1].enabled

-----------------------------------------------------------------------------
(* mergeSequentialBlocks on its own: block lists in any order *)

MaxBlocks == 3

\* local start and end strings: in order, empty, two slots long
MergeWindows ==
    { << 0, 30 >>, << 30, 60 >>, << 60, 90 >>, << 30, 30 >>, << 0, 60 >> }

\* two descriptions that differ in the embedded priority score
MergeDescriptions ==
    { CalendarDescription(Task(100, InvalidIso, "true", NoNotBefore, p, 50)) :
        p \in { 50, 60 } }

MergeBlockPool ==
    { [taskId |-> id, taskTitle |-> "title", startISO |-> w[1], endISO |-> w[2],
       minutes |-> IF w[2] > w[1] THEN w[2] - w[1] ELSE SCHEDULE_SLOT_MINUTES,
       calendarDescription |-> d] :
        id \in 1..2, w \in MergeWindows, d \in MergeDescriptions }

RECURSIVE BlockLists(_)
BlockLists(n) ==
    IF n = 0 THEN { << >> }
    ELSE LET shorter == BlockLists(n - 1)
         IN  shorter \cup
             { Append(l, b) : l \in { x \in shorter : Len(x) = n - 1 },
                              b \in MergeBlockPool }

InitMerge ==
    /\ pc = "merge"
    /\ blocks \in BlockLists(MaxBlocks)
    /\ tz = 0
    /\ now = 0
    /\ nowPartial = FALSE
    /\ analysis = << >>
    /\ busyIntervals = << >>
    /\ preferencesInput = DefaultPreferencesInput
    /\ preferences = DEFAULT_SCHEDULE_PREFERENCES
    /\ schedulingStart = 0
    /\ workDays = << >>
    /\ queue = << >>
    /\ plannedBusyIntervals = << >>
    /\ dayIdx = 0
    /\ start = 0
    /\ workedMinutesToday = 0
    /\ focusMinutesSinceBreak = 0
    /\ lastSlot = NoSlot
    /\ mergedBlocks = << >>
    /\ result = << >>
    /\ previousResult = NoPreviousCall
    /\ candidates = << >>
    /\ PageNotMounted
    /\ NoSignIn

MergeFrame ==
    UNCHANGED << pageVars, oauthVars, candidates, previousResult, tz, now, nowPartial, analysis, busyIntervals, preferencesInput,
                 preferences, schedulingStart, workDays, queue,
                 plannedBusyIntervals, dayIdx, start, workedMinutesToday,
                 focusMinutesSinceBreak, lastSlot >>

\* mergeSequentialBlocks(blocks)
MergeCall ==
    /\ pc = "merge"
    /\ mergedBlocks' = mergeSequentialBlocks(blocks)
    /\ blocks' = InputAfterMerge(blocks)
    /\ pc' = "merged"
    /\ UNCHANGED result
    /\ MergeFrame

\* mergeSequentialBlocks applied to its own output; result holds the list
\* the second call returns
MergeAgainCall ==
    /\ pc = "merged"
    /\ result' = mergeSequentialBlocks(mergedBlocks)
    /\ pc' = "remerged"
    /\ UNCHANGED << blocks, mergedBlocks >>
    /\ MergeFrame

NextMerge == MergeCall \/ MergeAgainCall

SpecMerge == InitMerge /\ [][NextMerge]_vars

\* C11: idempotent merge. For every block list, mergeSequentialBlocks
\* applied to its own output returns that output, and no two adjacent
\* blocks of a merged list can still be merged.
C11_MergeIdempotent ==
    /\ pc = "remerged" => result = mergedBlocks
    /\ pc \in { "merged", "remerged" } =>
           \A i \in 1..(Len(mergedBlocks) - 1) :
               ~CanMerge(mergedBlocks[i], mergedBlocks[i + 1])

\* three blocks of which the last two were merged into one that starts
\* where the first starts, and the second call has returned
C11_Witness ==
    /\ pc = "remerged"
    /\ Len(blocks) = 3
    /\ Len(mergedBlocks) = 2
    /\ mergedBlocks[2].minutes = 2 * SCHEDULE_SLOT_MINUTES
    /\ mergedBlocks[1].startISO = mergedBlocks[2].startISO

-----------------------------------------------------------------------------
(* Properties of the allocation: windows, cap, order of selection *)

\* the normalized rule of the calendar day an instant lies on
RuleAt(t) == RuleOrDefault(preferences, getDay(t))

\* an instant lies inside the window of its calendar day, and that day's
\* weekday is enabled
InsideWindow(t) ==
    LET rule == RuleAt(t)
    IN  /\ rule.enabled
        /\ setHours(t, rule.startHour) <= t
        /\ t < setHours(t, rule.endHour)

BlockInsideWindows(b) ==
    \A t \in BlockStart(b)..(BlockEnd(b) - 1) : InsideWindow(t)

\* C12: preference windows are respected. Every minute covered by a block
\* at the moment it is emitted, and by every returned (merged) block, lies
\* on a calendar day whose weekday rule is enabled, at or after that day's
\* startHour and before its endHour.
C12_WindowsRespected ==
    /\ lastSlot.kind = "place" => BlockInsideWindows(blocks[Len(blocks)])
    /\ pc = "done" => \A i \in 1..Len(result) : BlockInsideWindows(result[i])

\* a block on a later day than the scheduling start, whose window opens
\* later than the time of day of the day anchors, placed at the opening, and
\* a block that ends at the close of its day's window
C12_Witness ==
    /\ pc = "done"
    /\ \E i \in 1..Len(result) :
           /\ LocalDayOf(BlockStart(result[i])) > LocalDayOf(schedulingStart)
           /\ BlockStart(result[i])
                  = setHours(BlockStart(result[i]), RuleAt(BlockStart(result[i])).startHour)
           /\ BlockStart(result[i]) - schedulingStart
                  # MinutesPerDay * (LocalDayOf(BlockStart(result[i]))
                                         - LocalDayOf(schedulingStart))
           /\ BlockEnd(result[i])
                  = setHours(BlockStart(result[i]), RuleAt(BlockStart(result[i])).endHour)
           /\ \E d \in 0..6 : ~RuleOrDefault(preferences, d).enabled

\* the minutes of a block that fall on local calendar day d
MinutesOnDay(b, d) ==
    LET from == IF b.startISO >= d * MinutesPerDay THEN b.startISO
                ELSE d * MinutesPerDay
        to == IF b.endISO <= (d + 1) * MinutesPerDay THEN b.endISO
              ELSE (d + 1) * MinutesPerDay
    IN  IF to > from THEN to - from ELSE 0

RECURSIVE DayTotal(_, _)
DayTotal(bs, d) ==
    IF bs = << >> THEN 0
    ELSE MinutesOnDay(Head(bs), d) + DayTotal(Tail(bs), d)

\* the local calendar days on which a block list has work
DaysOf(bs) ==
    { b.startISO \div MinutesPerDay : b \in { bs[i] : i \in 1..Len(bs) } }
        \cup { (b.endISO - 1) \div MinutesPerDay : b \in { bs[i] : i \in 1..Len(bs) } }

\* C13: daily workload cap. On every calendar day the minutes of the
\* emitted blocks, and of the returned blocks, never exceed the normalized
\* maxWorkMinutesPerDay; while a day is walked workedMinutesToday is the
\* total emitted on that day, so a task is placed only when its whole block
\* (the full rounded duration of a non-splittable task, one slot of a
\* splittable one) still fits under the cap.
C13_DailyCap ==
    /\ pc = "slot" =>
           /\ workedMinutesToday = DayTotal(blocks, LocalDayOf(CurrentDay))
           /\ workedMinutesToday <= preferences.maxWorkMinutesPerDay
    /\ \A d \in DaysOf(blocks) :
           DayTotal(blocks, d) <= preferences.maxWorkMinutesPerDay
    /\ pc = "done" =>
           \A d \in DaysOf(result) :
               DayTotal(result, d) <= preferences.maxWorkMinutesPerDay

\* the cap ends a day: the window still has a free slot and a task with
\* work left whose deadline allows that slot, and the day's total is the cap
C13_Witness ==
    /\ pc = "slot"
    /\ Len(blocks) >= 2
    /\ workedMinutesToday = preferences.maxWorkMinutesPerDay
    /\ start < DayEnd
    /\ SlotEnd <= DayEnd
    /\ ~isOverlappingBusyWindow(start, SlotEnd, busyIntervals)
    /\ \E i \in 1..Len(queue) :
           /\ queue[i].remainingMinutes > 0
           /\ queue[i].deadlineMs >= SlotEnd

-----------------------------------------------------------------------------
(* Re-planning: the caller calls generateWeeklySchedule a second time *)

\* the call has returned and the caller calls again with the same argument
\* objects at the same "now"; the locals of the first call are dead values
\* that the second call has to create anew
Replan ==
    /\ pc = "done"
    /\ ~previousResult.called
    /\ previousResult' = [called |-> TRUE, blocks |-> result]
    /\ pc' = "begin"
    /\ UNCHANGED << pageVars, oauthVars, candidates, tz, now, nowPartial, analysis, busyIntervals,
                    preferencesInput, preferences, schedulingStart, workDays,
                    queue, blocks, plannedBusyIntervals, dayIdx, start,
                    workedMinutesToday, focusMinutesSinceBreak, lastSlot,
                    mergedBlocks, result >>

InitReplan ==
    /\ pc = "begin"
    /\ InitGeneral
    /\ InitRun

NextReplan == Next \/ Replan

SpecReplan == InitReplan /\ [][NextReplan]_vars

\* C14: idempotent re-planning. A second run with the same task analyses,
\* busy intervals, preferences and "now" returns the list the first run
\* returned, and no step of a run changes the task, busy-interval or
\* preference arguments.
C14_ReplanIdentical ==
    /\ [](pc = "done" /\ previousResult.called => result = previousResult.blocks)
    /\ [][/\ analysis' = analysis
          /\ busyIntervals' = busyIntervals
          /\ preferencesInput' = preferencesInput]_vars

\* a second run has returned a schedule of several blocks, after the first
\* run left a ledger, used-up queue items and counters behind
C14_Witness ==
    /\ pc = "done"
    /\ previousResult.called
    /\ Len(result) >= 2
    /\ Len(busyIntervals) >= 1
    /\ \E i \in 1..Len(queue) : queue[i].remainingMinutes = 0

-----------------------------------------------------------------------------
(* The candidate sort on its own: three candidates of one slot *)

\* the slot start of the comparator runs: a Monday, 09:00
CompareSlotStart == At(8, 9, 0)

\* hours from the slot start to the deadline: three due soon, each 20 hours
\* after the other, and two not due soon, 30 hours apart
HoursToDeadlinePool == { 10, 30, 50, 80, 110 }

CandidateTaskPool ==
    { Task(50, [ok |-> TRUE, t |-> CompareSlotStart + h * 60], "true",
           NoNotBefore, p, u) :
        h \in HoursToDeadlinePool, p \in { 50, 60, 90 }, u \in { 50, 70 } }

InitCompare ==
    /\ pc = "sort"
    /\ tz = 0
    /\ now = CompareSlotStart
    /\ nowPartial = FALSE
    /\ analysis \in { << [a EXCEPT !.id = 1], [b EXCEPT !.id = 2], [c EXCEPT !.id = 3] >> :
                        a \in CandidateTaskPool, b \in CandidateTaskPool,
                        c \in CandidateTaskPool }
    /\ busyIntervals = << >>
    /\ preferencesInput = DefaultPreferencesInput
    /\ preferences = DEFAULT_SCHEDULE_PREFERENCES
    /\ schedulingStart = CompareSlotStart
    /\ workDays = << >>
    /\ queue = BuildQueue(analysis)
    /\ blocks = << >>
    /\ plannedBusyIntervals = << >>
    /\ dayIdx = 0
    /\ start = CompareSlotStart
    /\ workedMinutesToday = 0
    /\ focusMinutesSinceBreak = 0
    /\ lastSlot = NoSlot
    /\ mergedBlocks = << >>
    /\ result = << >>
    /\ previousResult = NoPreviousCall
    /\ candidates = << >>
    /\ PageNotMounted
    /\ NoSignIn

\* queue.filter(...).sort(comparator) at the slot: every item passes the
\* filters, so the sort sees the three of them in queue order
SortCall ==
    /\ pc = "sort"
    /\ candidates' = Candidates(queue, start, SlotEnd, workedMinutesToday,
                                preferences.maxWorkMinutesPerDay)
    /\ pc' = "sorted"
    /\ UNCHANGED << pageVars, oauthVars, previousResult, tz, now, nowPartial, analysis, busyIntervals,
                    preferencesInput, preferences, schedulingStart, workDays,
                    queue, blocks, plannedBusyIntervals, dayIdx, start,
                    workedMinutesToday, focusMinutesSinceBreak, lastSlot,
                    mergedBlocks, result >>

NextCompare == SortCall

SpecCompare == InitCompare /\ [][NextCompare]_vars

\* a is ordered before b by the comparator at the current slot
OrderedBefore(a, b) == CompareCandidates(queue[a], queue[b], start) < 0

MinutesToDeadline(a) == queue[a].deadlineMs - start
DueSoon(a) == MinutesToDeadline(a) <= 72 * 60

\* C15: the comparator is a total ordering. For any three candidates of a
\* slot, a before b and b before c give a before c, and the sorted list has
\* no later element that the comparator orders before an earlier one.
C15_ComparatorTotalOrder ==
    pc = "sorted" =>
        /\ \A a, b, c \in 1..Len(queue) :
               (OrderedBefore(a, b) /\ OrderedBefore(b, c)) => OrderedBefore(a, c)
        /\ \A i, j \in 1..Len(candidates) :
               i < j => ~OrderedBefore(candidates[j], candidates[i])

\* C16 as stated: two candidates that are both not due soon and whose
\* hours-to-deadline differ by 24 hours or more are ordered nearer deadline
\* first, whatever their priorityScore and urgencyScore.
C16_GapRuleNotDueSoon ==
    pc = "sorted" =>
        \A a, b \in 1..Len(queue) :
            (/\ ~DueSoon(a) /\ ~DueSoon(b)
             /\ MinutesToDeadline(b) - MinutesToDeadline(a) >= 24 * 60)
                => OrderedBefore(a, b)

\* C16 as the comparator has it: the deadline-gap rule orders two due-soon
\* candidates 24 hours or more apart nearer deadline first, whatever their
\* scores; between two candidates that are both not due soon the gap rule is
\* not applied, and the higher priorityScore is first, whatever the deadlines.
C16_GapRuleDueSoonOnly ==
    pc = "sorted" =>
        \A a, b \in 1..Len(queue) :
            /\ (/\ DueSoon(a) /\ DueSoon(b)
                /\ MinutesToDeadline(b) - MinutesToDeadline(a) >= 24 * 60)
                   => OrderedBefore(a, b)
            /\ (/\ ~DueSoon(a) /\ ~DueSoon(b)
                /\ queue[a].priorityScore > queue[b].priorityScore)
                   => OrderedBefore(a, b)

\* a sorted slot that starts with a due-soon candidate, followed by two
\* candidates not due soon and a day or more apart, the farther one first
\* because its priority is higher
C16_Witness ==
    /\ pc = "sorted"
    /\ Len(candidates) = 3
    /\ DueSoon(candidates[1])
    /\ ~DueSoon(candidates[2]) /\ ~DueSoon(candidates[3])
    /\ MinutesToDeadline(candidates[2]) - MinutesToDeadline(candidates[3]) >= 24 * 60
    /\ queue[candidates[2]].priorityScore > queue[candidates[3]].priorityScore

-----------------------------------------------------------------------------
(* Selection at a slot *)

\* queue item i passes the four candidate filters at the current slot
IsSlotCandidate(i) ==
    IsCandidate(queue[i], start, SlotEnd, workedMinutesToday,
                preferences.maxWorkMinutesPerDay)

\* queue item i would pass the contiguous-fit check at the current slot
FitsContiguously(i) ==
    canFitContiguousBlock(start, DayEnd, queue[i].totalRoundedMinutes,
                          queue[i].deadlineMs, queue[i].notBeforeMs)

\* the step gives the current slot to a task: a block is emitted
SlotGiven == pc = "slot" /\ Len(blocks') = Len(blocks) + 1

\* C17: due-soon precedence in selection. Whenever a slot is given to a
\* task, that task is the first placeable candidate of the slot's sorted
\* list; and when it is not due soon (more than 72 hours from the slot
\* start to its deadline), the slot had no splittable due-soon candidate and
\* every non-splittable due-soon candidate failed the contiguous-fit check.
C17_DueSoonPrecedence ==
    [][SlotGiven =>
          /\ \E k \in 1..Len(SlotCandidates) :
                 /\ SlotCandidates[k] = lastSlot'.task
                 /\ Placeable(queue[lastSlot'.task], start, DayEnd)
                 /\ \A j \in 1..(k - 1) :
                        ~Placeable(queue[SlotCandidates[j]], start, DayEnd)
          /\ ~DueSoon(lastSlot'.task) =>
                 \A i \in 1..Len(queue) :
                     (IsSlotCandidate(i) /\ DueSoon(i)) =>
                         /\ ~queue[i].isSplittable
                         /\ ~FitsContiguously(i)]_vars

\* a slot was just given to a task that is not due soon, although a
\* due-soon non-splittable task with all its work left passed the deadline,
\* notBefore and cap filters at that slot
C17_Witness ==
    /\ lastSlot.kind = "place"
    /\ queue[lastSlot.task].deadlineMs - lastSlot.at > 72 * 60
    /\ \E i \in 1..Len(queue) :
           /\ ~queue[i].isSplittable
           /\ queue[i].remainingMinutes = queue[i].totalRoundedMinutes
           /\ queue[i].deadlineMs >= lastSlot.at + SCHEDULE_SLOT_MINUTES
           /\ queue[i].deadlineMs - lastSlot.at <= 72 * 60
           /\ NotBeforeAllows(queue[i], lastSlot.at)
           /\ (workedMinutesToday - SCHEDULE_SLOT_MINUTES)
                  + queue[i].totalRoundedMinutes
                  <= preferences.maxWorkMinutesPerDay

-----------------------------------------------------------------------------
(* Breaks *)

\* C18: breaks and non-splittable tasks. A non-splittable task is never
\* placed at a slot where a break would become due inside its block: when
\* its block has just been emitted, the focus counter had not reached
\* min(breakEveryFocusMinutes, maxContinuousFocusMinutes) at the start of
\* any slot of the block after the first (the counter now holds the whole
\* block, so one slot less than it is below the trigger).
C18_NoBreakDueInsideBlock ==
    (lastSlot.kind = "place" /\ ~queue[lastSlot.task].isSplittable) =>
        focusMinutesSinceBreak - SCHEDULE_SLOT_MINUTES < BreakTriggerMinutes

-----------------------------------------------------------------------------
(* The final overlap filter *)

\* C19: the final overlap filter is a no-op. Every merged block already
\* overlaps no caller busy interval, so the returned list is the merged
\* list: the filter removes nothing.
C19_FilterIsNoOp ==
    pc = "done" => result = mergedBlocks

-----------------------------------------------------------------------------
(* The scheduling start *)

\* the first instant that is not before "now" (after it, when "now" has
\* seconds), lies on the local 30-minute grid and lies inside the window
\* of an enabled weekday; searched over the eight days from "now"
EarliestEligibleInstant ==
    LET lo == IF nowPartial THEN now + 1 ELSE now
        first == CeilDiv(lo - tz, SCHEDULE_SLOT_MINUTES)
        grid == { k * SCHEDULE_SLOT_MINUTES + tz : k \in first..(first + 8 * 48) }
    IN  CHOOSE t \in grid :
            /\ InsideWindow(t)
            /\ \A u \in grid : u < t => ~InsideWindow(u)

\* C20: scheduling start. For preference sets whose values are in their
\* documented ranges, getSchedulingStart returns the earliest instant that
\* is at or after "now", lies on a 30-minute slot boundary and lies inside
\* the window [startHour, endHour) of an enabled weekday (so the 14-day
\* fallback is not what it returns); no emitted and no returned block
\* starts before that instant.
C20_SchedulingStartEarliest ==
    /\ (pc = "day" /\ dayIdx = 1) => schedulingStart = EarliestEligibleInstant
    /\ \A i \in 1..Len(blocks) : BlockStart(blocks[i]) >= schedulingStart
    /\ pc = "done" =>
           \A i \in 1..Len(result) : BlockStart(result[i]) >= schedulingStart

\* "now" lies inside the window of an enabled day, rounding it up reaches
\* the end of the window, the next enabled weekday is days away, and the
\* run has returned a block that starts at the scheduling start
C20_Witness ==
    /\ pc = "done"
    /\ InsideWindow(now)
    /\ schedulingStart - now > 2 * MinutesPerDay
    /\ \E i \in 1..Len(result) : BlockStart(result[i]) = schedulingStart

-----------------------------------------------------------------------------
(* Planning horizon *)

\* calendar days between the scheduling-start day and the day of t
DaysAfterStart(t) == LocalDayOf(t) - LocalDayOf(schedulingStart)

HorizonLength == PlanningDays(analysis, schedulingStart)

HorizonShape ==
    /\ HorizonLength \in MinPlanningDays..MaxPlanningDays
    /\ \A i \in 1..Len(workDays) : DaysAfterStart(workDays[i]) \in 0..(HorizonLength - 1)
    /\ \A i \in 1..Len(blocks) :
          DaysAfterStart(parseLocalISO(blocks[i].startISO)) < MaxPlanningDays

\* C21 as stated: the horizon is 7 to 60 days, it holds the day of the
\* latest deadline whenever that deadline is less than 60 days after the
\* scheduling start, and no block lies 60 or more days after the start day
C21_HorizonCoversUnder60Days ==
    (pc = "day" /\ dayIdx > Len(workDays)) =>
        /\ HorizonShape
        /\ LatestDeadline(analysis, schedulingStart) - schedulingStart
                < MaxPlanningDays * MinutesPerDay
           => DaysAfterStart(LatestDeadline(analysis, schedulingStart)) < HorizonLength

\* C21, amended: the horizon is 7 to 60 days, it holds the day of the latest
\* deadline whenever that deadline is at most 59 days after the scheduling
\* start, and no block lies 60 or more days after the start day
C21_HorizonCoversUpTo59Days ==
    (pc = "day" /\ dayIdx > Len(workDays)) =>
        /\ HorizonShape
        /\ LatestDeadline(analysis, schedulingStart) - schedulingStart
                <= (MaxPlanningDays - 1) * MinutesPerDay
           => DaysAfterStart(LatestDeadline(analysis, schedulingStart)) < HorizonLength

\* a run whose deadline is 59 days out, over a full horizon, placed a block
\* on the last day of it
C21_Witness ==
    /\ pc = "day" /\ dayIdx > Len(workDays)
    /\ LatestDeadline(analysis, schedulingStart) - schedulingStart
           = (MaxPlanningDays - 1) * MinutesPerDay
    /\ HorizonLength = MaxPlanningDays
    /\ Len(workDays) = MaxPlanningDays
    /\ \E i \in 1..Len(blocks) :
          DaysAfterStart(parseLocalISO(blocks[i].startISO)) = MaxPlanningDays - 1

-----------------------------------------------------------------------------
(* Slots inside caller busy intervals *)

\* C22: a slot that overlaps a caller busy interval leaves the queue, the
\* planned-busy ledger, the emitted blocks, workedMinutesToday and
\* focusMinutesSinceBreak as they were, so the focus counter built up before
\* the interval is the one the first free slot after it sees
C22_BusySlotChangesNothing ==
    [][(/\ pc = "slot"
        /\ InSlotLoop
        /\ isOverlappingBusyWindow(start, SlotEnd, busyIntervals))
       => /\ start' = addMinutes(start, SCHEDULE_SLOT_MINUTES)
          /\ UNCHANGED << queue, blocks, plannedBusyIntervals,
                          workedMinutesToday, focusMinutesSinceBreak >>]_vars

\* a busy slot was just passed with focus minutes standing, and the next
\* slot is free
C22_Witness ==
    /\ pc = "slot"
    /\ lastSlot.kind = "busy"
    /\ focusMinutesSinceBreak > 0
    /\ workedMinutesToday > 0
    /\ SlotIsFree

-----------------------------------------------------------------------------
(* The merge rule *)

\* the three conditions, between neighbours of the input list
Joins(bs, k) ==
    /\ bs[k - 1].taskId = bs[k].taskId
    /\ bs[k - 1].endISO = bs[k].startISO
    /\ bs[k - 1].calendarDescription = bs[k].calendarDescription

\* the input positions that open an output block
Openers(bs) == { k \in 1..Len(bs) : k = 1 \/ ~Joins(bs, k) }

\* the opener of the j-th output block, and the last position merged into it
OpenerOf(bs, j) ==
    CHOOSE k \in Openers(bs) : Cardinality({ o \in Openers(bs) : o <= k }) = j

CloserOf(bs, j) ==
    CHOOSE e \in OpenerOf(bs, j)..Len(bs) :
        /\ \A k \in (OpenerOf(bs, j) + 1)..e : k \notin Openers(bs)
        /\ e = Len(bs) \/ (e + 1) \in Openers(bs)

RECURSIVE MinutesBetween(_, _, _)
MinutesBetween(bs, first, last) ==
    IF first > last THEN 0
    ELSE bs[first].minutes + MinutesBetween(bs, first + 1, last)

MergedByRule(bs, out) ==
    /\ Len(out) = Cardinality(Openers(bs))
    /\ \A j \in 1..Len(out) :
          out[j] = [bs[OpenerOf(bs, j)] EXCEPT
                       !.endISO = bs[CloserOf(bs, j)].endISO,
                       !.minutes = MinutesBetween(bs, OpenerOf(bs, j), CloserOf(bs, j))]

\* C23: mergeSequentialBlocks merges a block into the output block just
\* before it exactly when taskId is the same, that block's endISO is its
\* startISO and the descriptions are equal; the other blocks keep their
\* order, every taskId keeps its total minutes, and the blocks of the
\* argument list are left as they were
C23_MergeRule ==
    /\ [](pc = "merged" =>
            /\ MergedByRule(blocks, mergedBlocks)
            /\ \A id \in 1..2 :
                  SumOfMinutes(mergedBlocks, id) = SumOfMinutes(blocks, id))
    /\ [][pc = "merge" => blocks' = blocks]_vars

\* the second block was merged into the first; the third follows it without
\* a gap and is of the same task, but has another description and stayed
C23_Witness ==
    /\ pc = "merged"
    /\ Len(blocks) = 3
    /\ Len(mergedBlocks) = 2
    /\ mergedBlocks[1].minutes = blocks[1].minutes + blocks[2].minutes
    /\ mergedBlocks[2] = blocks[3]
    /\ blocks[3].taskId = blocks[2].taskId
    /\ blocks[3].startISO = blocks[2].endISO
    /\ blocks[3].calendarDescription # blocks[2].calendarDescription

-----------------------------------------------------------------------------
(* Migration of the legacy preference shape *)

\* the payload passes the object test and its dayRules is no array
IsLegacyInput ==
    /\ IsObjectValue(preferencesInput)
    /\ PropertiesOf(preferencesInput).dayRules.k # "array"

\* an hour of the global window: the default when it is no number, else
\* the whole hour at or below it, brought into lo..hi
GlobalHour(v, lo, hi, default) ==
    CASE ~IsNumber(v) -> default
      [] IsNumber(v) /\ v.cls = "NaN" -> NaN
      [] IsNumber(v) /\ v.cls = "Infinity" -> hi
      [] IsNumber(v) /\ v.cls = "-Infinity" -> lo
      [] OTHER -> CHOOSE h \in lo..hi :
                     \/ h = v.n \div 2
                     \/ h = lo /\ v.n \div 2 < lo
                     \/ h = hi /\ v.n \div 2 > hi

\* the shared window: the clamped global one, or the default window when
\* that one is empty, inverted or not a number
LegacyWindow ==
    LET s == GlobalHour(PropertiesOf(preferencesInput).startHour, 0, 23, DefaultStartHour)
        e == GlobalHour(PropertiesOf(preferencesInput).endHour, 1, 24, DefaultEndHour)
    IN  IF ~IsNaN(s) /\ ~IsNaN(e) /\ s < e THEN << s, e >>
        ELSE << DefaultStartHour, DefaultEndHour >>

ActiveWeekdaysGiven == PropertiesOf(preferencesInput).activeWeekdays.k = "array"

\* weekday w is an element of activeWeekdays
InActiveWeekdays(w) ==
    \E j \in 1..Len(PropertiesOf(preferencesInput).activeWeekdays.items) :
        PropertiesOf(preferencesInput).activeWeekdays.items[j] = Num(w)

SevenRulesOfWindow(window) ==
    /\ Len(preferences.dayRules) = 7
    /\ \A w \in 0..6 :
          /\ preferences.dayRules[w + 1].weekday = w
          /\ preferences.dayRules[w + 1].startHour = window[1]
          /\ preferences.dayRules[w + 1].endHour = window[2]

\* C24 as stated: without a dayRules array the result is seven rules of the
\* clamped global window (the default window when that is empty or
\* inverted), weekday w enabled exactly when w is in activeWeekdays, all
\* seven enabled when activeWeekdays is absent
C24_LegacyMigration ==
    (pc = "normalized" /\ IsLegacyInput) =>
        /\ SevenRulesOfWindow(LegacyWindow)
        /\ \A w \in 0..6 :
              preferences.dayRules[w + 1].enabled =
                  IF ActiveWeekdaysGiven THEN InActiveWeekdays(w) ELSE TRUE

\* C24, amended: the same, as long as activeWeekdays is absent or names a
\* weekday 0..6; when it is a list that names none, the result is the
\* default rule set, all seven enabled from 08:00 to 23:00
C24_LegacyMigrationSomeActive ==
    (pc = "normalized" /\ IsLegacyInput) =>
        IF ActiveWeekdaysGiven /\ ~(\E w \in 0..6 : InActiveWeekdays(w))
        THEN preferences.dayRules = DEFAULT_SCHEDULE_PREFERENCES.dayRules
        ELSE /\ SevenRulesOfWindow(LegacyWindow)
             /\ \A w \in 0..6 :
                   preferences.dayRules[w + 1].enabled =
                       IF ActiveWeekdaysGiven THEN InActiveWeekdays(w) ELSE TRUE

\* a legacy payload of window 09-17 active on Monday and Friday
C24_Witness ==
    /\ pc = "normalized"
    /\ IsLegacyInput
    /\ ActiveWeekdaysGiven
    /\ LegacyWindow = << 9, 17 >>
    /\ { w \in 0..6 : preferences.dayRules[w + 1].enabled } = { 1, 5 }
    /\ preferences.dayRules[1].startHour = 9

-----------------------------------------------------------------------------
(* Deadlines that do not parse *)

\* C25: a task whose deadline string does not parse is never scheduled. Its
\* deadline is the current instant, every slot from the scheduling start on
\* ends after that instant, and no block of the task is emitted or returned
C25_UnparseableDeadlineNeverScheduled ==
    /\ pc = "slot" => SlotEnd > now
    /\ \A i \in 1..Len(queue) :
          ~queue[i].deadline.ok =>
              /\ queue[i].deadlineMs = now
              /\ queue[i].remainingMinutes = queue[i].totalRoundedMinutes
              /\ \A k \in 1..Len(blocks) : blocks[k].taskId # queue[i].id
              /\ \A k \in 1..Len(result) : result[k].taskId # queue[i].id

\* a finished run that placed another task and left the task with the
\* unparseable deadline out, though a slot was idle
C25_Witness ==
    /\ pc = "done"
    /\ result # << >>
    /\ \E i \in 1..Len(queue) :
          /\ ~queue[i].deadline.ok
          /\ queue[i].notBeforeMs.isNull
          /\ queue[i].remainingMinutes > 0
    /\ \E i \in 1..Len(queue) :
          queue[i].deadline.ok /\ queue[i].remainingMinutes = 0

-----------------------------------------------------------------------------
(* Continuous focus *)

\* the break trigger, rounded up to whole slots
FocusBound == CeilDiv(BreakTriggerMinutes, SCHEDULE_SLOT_MINUTES) * SCHEDULE_SLOT_MINUTES

\* blocks i..j of the list follow one another without a gap, on one day
BackToBack(bs, i, j) ==
    /\ \A k \in (i + 1)..j : BlockStart(bs[k]) = BlockEnd(bs[k - 1])
    /\ LocalDayOf(BlockStart(bs[i])) = LocalDayOf(BlockEnd(bs[j]) - 1)

\* C26: continuous focus is bounded. On a single day every run of
\* back-to-back work blocks, over all tasks, is at most
\* min(breakEveryFocusMinutes, maxContinuousFocusMinutes) long, rounded up
\* to a whole slot
C26_ContinuousFocusBounded ==
    pc = "done" =>
        \A i \in 1..Len(result) : \A j \in i..Len(result) :
            BackToBack(result, i, j) =>
                BlockEnd(result[j]) - BlockStart(result[i]) <= FocusBound

-----------------------------------------------------------------------------
(* Normalizing twice *)

\* C27: normalizeSchedulePreferences is idempotent. For every payload, the
\* call on the result of the first call returns a value equal to that result
C27_NormalizeIdempotent ==
    [][pc = "normalized" => preferences' = preferences]_vars

\* the second call has returned, for a payload whose first result differs
\* from the default preferences in a day rule and in a wellness value
C27_Witness ==
    /\ pc = "renormalized"
    /\ preferences.dayRules # DEFAULT_SCHEDULE_PREFERENCES.dayRules
    /\ \E i \in 1..7 : ~preferences.dayRules[i].enabled
    /\ preferencesInput.k = "object"

-----------------------------------------------------------------------------
(* The planner page: refreshSchedule (app/planner/page.tsx)                *)
(*                                                                         *)
(* A render creates the callback over the values of analysis,              *)
(* connectedCalendar, schedulePreferences and ignoredCalendarIds of that   *)
(* render; the record of these values stands for the callback.  The name   *)
(* refreshSchedule inside the callback is the constant of the render that  *)
(* created it, which holds that same callback.  analysis = 0 is the empty  *)
(* list.  The synchronous stretches of the callback are single steps.      *)

InputPool ==
    [analysis : 0..2, schedulePreferences : 0..1, ignoredCalendarIds : 0..1,
     connectedCalendar : BOOLEAN]

\* no generateWeeklySchedule run is part of these behaviours
NoRun ==
    /\ tz = 0
    /\ now = 0
    /\ nowPartial = FALSE
    /\ analysis = << >>
    /\ busyIntervals = << >>
    /\ preferencesInput = DefaultPreferencesInput
    /\ preferences = DEFAULT_SCHEDULE_PREFERENCES
    /\ schedulingStart = 0
    /\ workDays = << >>
    /\ queue = << >>
    /\ blocks = << >>
    /\ plannedBusyIntervals = << >>
    /\ dayIdx = 0
    /\ start = 0
    /\ workedMinutesToday = 0
    /\ focusMinutesSinceBreak = 0
    /\ lastSlot = NoSlot
    /\ mergedBlocks = << >>
    /\ result = << >>
    /\ previousResult = NoPreviousCall
    /\ candidates = << >>

\* the first render: the effect on [refreshSchedule] is due
InitRefresh ==
    /\ pc = "mounted"
    /\ inputs \in InputPool
    /\ effectPending = TRUE
    /\ scheduleRequestInFlight = FALSE
    /\ queuedScheduleRefresh = NothingQueued
    /\ requests = << >>
    /\ schedule = NoSchedule
    /\ scheduleLoading = FALSE
    /\ coalesced = {}
    /\ NoSignIn
    /\ NoRun

\* the queue entry keeps only the flag of the last caller
QueuedAfterLastCaller(q, silent) == [queued |-> TRUE, silent |-> silent]

\* the queue entry after one more call behind the running refresh
QueuedAfter(q, silent) == [queued |-> TRUE, silent |-> q.silent /\ silent]

\* a schedule computed from the values of a callback, by the route or here
ScheduleFrom(callback, by) == [set |-> TRUE, from |-> callback, by |-> by]

\* the callback from "scheduleRequestInFlight.current = true" to its first
\* await or return, on the page state st
Started(callback, silent, st) ==
    IF callback.analysis = 0 \/ ~callback.connectedCalendar
    THEN [st EXCEPT !.schedule = ScheduleFrom(callback, "local"),
                    !.scheduleLoading = FALSE,
                    !.scheduleRequestInFlight = FALSE]
    ELSE [st EXCEPT !.scheduleLoading = IF ~silent THEN TRUE ELSE @,
                    !.scheduleRequestInFlight = TRUE,
                    !.requests = Append(@, [callback |-> callback, silent |-> silent])]

PageState ==
    [schedule |-> schedule, scheduleLoading |-> scheduleLoading,
     scheduleRequestInFlight |-> scheduleRequestInFlight, requests |-> requests]

SetPageState(st) ==
    /\ schedule' = st.schedule
    /\ scheduleLoading' = st.scheduleLoading
    /\ scheduleRequestInFlight' = st.scheduleRequestInFlight
    /\ requests' = st.requests

\* refreshSchedule({ silent }) of a callback, up to its first await or return
RefreshSchedule(callback, silent) ==
    IF scheduleRequestInFlight
    THEN /\ queuedScheduleRefresh' = QueuedAfter(queuedScheduleRefresh, silent)
         /\ coalesced' = coalesced \cup { silent }
         /\ UNCHANGED << schedule, scheduleLoading, scheduleRequestInFlight, requests >>
    ELSE /\ SetPageState(Started(callback, silent, PageState))
         /\ UNCHANGED << queuedScheduleRefresh, coalesced >>

\* analysis, the preferences, the ignored calendars or the connection
\* change: the page renders again and the effect is due
ChangeInput ==
    /\ pc \in { "mounted", "changed", "effect", "called", "response" }
    /\ \E next \in InputPool :
          /\ Cardinality({ f \in DOMAIN next : next[f] # inputs[f] }) = 1
          /\ inputs' = next
    /\ effectPending' = TRUE
    /\ pc' = "changed"
    /\ UNCHANGED << scheduleRequestInFlight, queuedScheduleRefresh, requests,
                    schedule, scheduleLoading, coalesced >>
    /\ UNCHANGED << plannerVars, oauthVars >>

\* useEffect(() => refreshSchedule({ silent: false }), [refreshSchedule])
EffectRun ==
    /\ pc \in { "mounted", "changed", "effect", "called", "response" }
    /\ effectPending
    /\ RefreshSchedule(inputs, FALSE)
    /\ effectPending' = FALSE
    /\ pc' = "effect"
    /\ UNCHANGED << inputs, plannerVars, oauthVars >>

\* a call of the rendered callback with either flag
RefreshScheduleCall ==
    /\ pc \in { "changed", "effect", "called", "response" }
    /\ ~effectPending
    /\ \E silent \in BOOLEAN : RefreshSchedule(inputs, silent)
    /\ pc' = "called"
    /\ UNCHANGED << inputs, effectPending, plannerVars, oauthVars >>

\* the fetch settles: the schedule of the route, or the local fallback of
\* the catch block; then the finally block and the call it makes
FetchSettles ==
    /\ pc \in { "changed", "effect", "called", "response" }
    /\ requests # << >>
    /\ \E by \in { "route", "local" } :
          LET request == Head(requests)
              settled == [schedule |-> ScheduleFrom(request.callback, by),
                          scheduleLoading |-> FALSE,
                          scheduleRequestInFlight |-> FALSE,
                          requests |-> Tail(requests)]
          IN  IF queuedScheduleRefresh.queued
              THEN /\ queuedScheduleRefresh' = NothingQueued
                   /\ SetPageState(Started(request.callback,
                                           queuedScheduleRefresh.silent, settled))
              ELSE /\ UNCHANGED queuedScheduleRefresh
                   /\ SetPageState(settled)
    /\ coalesced' = {}
    /\ pc' = "response"
    /\ UNCHANGED << inputs, effectPending, plannerVars, oauthVars >>

NextRefresh == ChangeInput \/ EffectRun \/ RefreshScheduleCall \/ FetchSettles

SpecRefresh == InitRefresh /\ [][NextRefresh]_vars

\* C28: schedule refresh is single-flight with coalescing. At most one
\* request is outstanding; the calls that arrive behind a running refresh
\* make exactly one follow-up refresh when it completes, which is not silent
\* if one of them was not; the in-flight flag is false whenever no refresh
\* is running
C28_SingleFlightCoalescing ==
    /\ [](/\ Len(requests) <= 1
          /\ scheduleRequestInFlight <=> requests # << >>
          /\ queuedScheduleRefresh.queued <=> coalesced # {}
          /\ queuedScheduleRefresh.queued => scheduleRequestInFlight)
    /\ [][pc' = "response" =>
            IF coalesced # {}
            THEN /\ Len(requests') = 1
                 /\ requests'[1].silent = (FALSE \notin coalesced)
                 /\ queuedScheduleRefresh' = NothingQueued
            ELSE /\ requests' = << >>
                 /\ ~scheduleRequestInFlight']_vars

\* the finally block has just started the follow-up refresh of queued
\* calls, one of which was not silent
C28_Witness ==
    /\ pc = "response"
    /\ Len(requests) = 1
    /\ ~requests[1].silent
    /\ scheduleLoading
    /\ queuedScheduleRefresh = NothingQueued

\* no refresh is running, queued or due
PageQuiescent ==
    /\ pc \in { "effect", "called", "response" }
    /\ ~effectPending
    /\ ~scheduleRequestInFlight
    /\ requests = << >>
    /\ ~queuedScheduleRefresh.queued

\* C29: no stale schedule after coalescing. Once every refresh has
\* completed, the displayed schedule was computed from the latest analysis,
\* preferences and ignored calendars, also when they changed while a
\* request was in flight
C29_NoStaleSchedule ==
    PageQuiescent =>
        /\ schedule.set
        /\ schedule.from.analysis = inputs.analysis
        /\ schedule.from.schedulePreferences = inputs.schedulePreferences
        /\ schedule.from.ignoredCalendarIds = inputs.ignoredCalendarIds

-----------------------------------------------------------------------------
(* Google sign-in: the state cookie and the callback route                 *)
(*                                                                         *)
(* cookies() reads the cookies the request carries and writes Set-Cookie   *)
(* headers of the response, so the stored state is the cookie the browser  *)
(* held when it sent the request, and a deletion reaches the browser with  *)
(* the response.  State values are 1, 2, ... (crypto.randomUUID() is       *)
(* fresh); 0 stands for an absent parameter.                               *)

MaxStates == 2
MaxInFlight == 2

\* a cookie set by saveOAuthState or saveTokens
Cookie(value) == [present |-> TRUE, ok |-> TRUE, value |-> value]

\* a cookie whose payload does not decrypt
GarbageCookie == [present |-> TRUE, ok |-> FALSE, value |-> 0]

InitSignIn ==
    /\ pc = "signin"
    /\ NoSignIn
    /\ PageNotMounted
    /\ NoRun

\* GET /api/auth/google: a fresh state is stored and sent to Google
StartSignIn ==
    /\ pc = "signin"
    /\ issuedStates < MaxStates
    /\ issuedStates' = issuedStates + 1
    /\ stateCookie' = Cookie(issuedStates')
    /\ UNCHANGED << pc, tokenCookie, callbacks, responses, lastCallback, handledStates >>
    /\ UNCHANGED << plannerVars, pageVars >>

\* a request for the callback URL leaves the browser with its cookies
SendCallback ==
    /\ pc = "signin"
    /\ Len(callbacks) + Len(responses) < MaxInFlight
    /\ \E state \in 0..issuedStates, code \in 0..1, error \in BOOLEAN,
          cookie \in { stateCookie, GarbageCookie } :
          callbacks' = Append(callbacks, [state |-> state, code |-> code,
                                          error |-> error, cookie |-> cookie])
    /\ UNCHANGED << pc, stateCookie, tokenCookie, responses, lastCallback,
                    handledStates, issuedStates >>
    /\ UNCHANGED << plannerVars, pageVars >>

\* consumeOAuthState(): the stored state, or null (value 0)
consumeOAuthState(cookie) ==
    IF ~cookie.present THEN 0 ELSE IF ~cookie.ok THEN 0 ELSE cookie.value

\* the redirect of the callback route; exchanged says that
\* exchangeCodeForToken returned a token
CallbackOutcome(request, exchanged) ==
    LET storedState == consumeOAuthState(request.cookie)
    IN  IF storedState = 0 \/ request.state = 0 \/ request.state # storedState
        THEN "invalid_state"
        ELSE IF request.error THEN "error"
        ELSE IF request.code = 0 THEN "missing_code"
        ELSE IF exchanged THEN "connected"
        ELSE "token_exchange_failed"

RemoveAt(seq, i) == SubSeq(seq, 1, i - 1) \o SubSeq(seq, i + 1, Len(seq))

\* GET /api/auth/google/callback for one of the requests under way
HandleCallback ==
    /\ pc = "signin"
    /\ \E i \in 1..Len(callbacks), exchanged \in BOOLEAN :
          LET request == callbacks[i]
              outcome == CallbackOutcome(request, exchanged)
          IN  /\ callbacks' = RemoveAt(callbacks, i)
              /\ responses' = Append(responses,
                                     [deleteState |-> TRUE,
                                      saveTokens |-> outcome = "connected",
                                      code |-> request.code,
                                      outcome |-> outcome])
              /\ lastCallback' = [outcome |-> outcome,
                                  repeated |-> /\ request.state # 0
                                               /\ request.state \in handledStates,
                                  savedTokens |-> outcome = "connected"]
              /\ handledStates' = handledStates \cup { request.state }
    /\ UNCHANGED << pc, stateCookie, tokenCookie, issuedStates >>
    /\ UNCHANGED << plannerVars, pageVars >>

\* a response reaches the browser, which applies its Set-Cookie headers
ApplyResponse ==
    /\ pc = "signin"
    /\ \E i \in 1..Len(responses) :
          /\ responses' = RemoveAt(responses, i)
          /\ stateCookie' = IF responses[i].deleteState THEN NoCookie ELSE stateCookie
          /\ tokenCookie' = IF responses[i].saveTokens THEN Cookie(responses[i].code)
                            ELSE tokenCookie
    /\ UNCHANGED << pc, callbacks, lastCallback, handledStates, issuedStates >>
    /\ UNCHANGED << plannerVars, pageVars >>

NextSignIn == StartSignIn \/ SendCallback \/ HandleCallback \/ ApplyResponse

SpecSignIn == InitSignIn /\ [][NextSignIn]_vars

\* C30: the OAuth state is single-use and gates token storage. A callback
\* that carries the state parameter of a callback handled before it
\* redirects with invalid_state and saves no tokens
C30_StateSingleUse ==
    lastCallback.repeated =>
        /\ lastCallback.outcome = "invalid_state"
        /\ ~lastCallback.savedTokens

====
